---- MODULE Spec2Model ----
(***************************************************************************)
(* WhatsApp connection-session manager of codeia-backend.                  *)
(*                                                                         *)
(* The repository holds two implementations of WhatsAppManager:            *)
(*   - the Baileys one (sockets map, connection.update handler, reconnect  *)
(*     timer): definitions prefixed B_, specification SpecB;               *)
(*   - the whatsapp-web.js one (clients map, qr/ready/auth_failure/        *)
(*     disconnected handlers, QR timer): definitions prefixed W_,          *)
(*     specification SpecW.                                                *)
(* Spec runs whichever of the two the process was built with.              *)
(* Every `await` of the source is a suspension point: the code before it   *)
(* and the code after it are separate steps, and any other callback may    *)
(* run in between (single-threaded event loop).                            *)
(***************************************************************************)
EXTENDS Integers, Sequences, FiniteSets, TLC

VARIABLES
    sessions,         \* this.sessions : sessionId -> SessionInfo (in-memory registry)
    whatsAppSession,  \* prisma.whatsAppSession : sessionId -> persisted status, "ABSENT" = no row
    sockets,          \* Baileys: this.sockets : sessionId -> index into socks
    socks,            \* Baileys: every WASocket made by makeWASocket, with its closure
    clients,          \* whatsapp-web.js: this.clients : sessionId -> index into clis
    clis,             \* whatsapp-web.js: every Client constructed, with its closure
    qrTimeouts,       \* whatsapp-web.js: this.qrTimeouts, the sessions with an armed QR timer
    tasks,            \* pending continuations: calls suspended at an await, armed
                      \* reconnect timers, prisma updates issued and not yet resolved
    deleting,         \* DELETE route: stopClient done, prisma delete not yet issued
    customer,         \* prisma.customer : the phones of the tenant that have a row
    message,          \* prisma.message : the rows in createdAt order
    agent,            \* prisma.agent : the ids of the tenant's agents with isActive
    stored,           \* how many rows of prisma.message earlier runs of the process left
    manager,          \* which WhatsAppManager the process runs: "baileys" or "wwebjs"
    appointment,      \* prisma.appointment : the rows of the tenant in creation order
    authKey,          \* prisma.whatsAppAuthKey : keyId -> row of the session, "absent" = none
    restore,          \* restoreSessions of server.ts: where the call made at boot stands
    lastOp            \* the operation performed by the last step (observation only)

vars == <<sessions, whatsAppSession, sockets, socks, clients, clis, qrTimeouts, tasks,
          deleting, customer, message, agent, stored, manager, appointment, authKey,
          restore, lastOp>>

(* What the lifecycle code of the Baileys manager never touches, and what the *)
(* lifecycle code of the whatsapp-web.js one never does.                      *)
B_frame == UNCHANGED <<clients, clis, qrTimeouts, customer, message, agent, stored, manager,
                       appointment, authKey, restore>>
W_frame == UNCHANGED <<sockets, socks, customer, message, agent, stored, manager,
                       appointment, authKey, restore>>

(* What the handlers of inbound messages never touch. *)
M_frame == UNCHANGED <<sessions, whatsAppSession, sockets, socks, clients, clis,
                       qrTimeouts, deleting, agent, stored, manager, appointment, authKey,
                       restore>>

-----------------------------------------------------------------------------
(* Bounds *)

MaxSockets == 2      \* connections (sockets, clients) created in one run
MaxTasks   == 2      \* continuations pending at the same time
MaxStored  == 12     \* rows of prisma.message left by earlier runs
MaxNewRows == 4      \* rows of prisma.message inserted in one run
MaxAppointments == 2 \* rows of prisma.appointment

SessionIds == {"s1"}

(* The row of a session: start is always called with the row's columns. *)
TenantOf(sid) == "t1"
NameOf(sid)   == IF sid = "s1" THEN "Loja" ELSE "Suporte"
AgentOf(sid)  == IF sid = "s1" THEN "agent1" ELSE "null"

-----------------------------------------------------------------------------
(* Helpers on maps and sequences *)

MapSet(m, k, v) == (k :> v) @@ m
MapDelete(m, k) == [x \in (DOMAIN m) \ {k} |-> m[x]]
SeqRemove(q, i) == SubSeq(q, 1, i - 1) \o SubSeq(q, i + 1, Len(q))
EmptyMap == [x \in {} |-> x]

SessionInfo(status, qrCode, phoneNumber, sessionName) ==
    [status |-> status, qrCode |-> qrCode, phoneNumber |-> phoneNumber,
     sessionName |-> sessionName]

Room == Len(tasks) < MaxTasks

(* The pending continuations run in any order, so their list is kept in one *)
(* canonical order (by TaskRank) instead of the order they were created in. *)
StatusRank(status) ==
    CASE status = "STARTING" -> 1 [] status = "QRCODE" -> 2
      [] status = "CONNECTED" -> 3 [] OTHER -> 4

PcRank(pc) ==
    CASE pc = "customer" -> 1 [] pc = "customerCreate" -> 2 [] pc = "create" -> 3
      [] pc = "agent" -> 4 [] pc = "findFirst" -> 5 [] pc = "findMany" -> 6
      [] pc = "chat" -> 7 [] pc = "send" -> 8 [] OTHER -> 9

TextRank(text) == CASE text = "" -> 0 [] text = "oi" -> 1 [] OTHER -> 2

TaskRank(t) ==
    CASE t.type = "start"   -> IF t.pc = "findUnique" THEN 1 ELSE 2
      [] t.type = "qr"      -> 10 + t.sock
      [] t.type = "retry"   -> 20
      [] t.type = "persist" -> 30 + StatusRank(t.status)
      [] t.type = "W_init"  -> 40 + t.client
      [] t.type = "W_qr"    -> (IF t.pc = "toDataURL" THEN 50 ELSE 60) + t.client
      [] t.type = "W_ready" -> 70 + t.client
      [] t.type = "W_disc"  -> 80
      [] t.type = "W_stop"  -> IF t.pc = "destroy" THEN 90 ELSE 91
      [] t.type = "B_msg"   -> 100 + 20 * PcRank(t.pc) + t.exclude
      [] t.type = "W_msg"   -> 300 + 20 * PcRank(t.pc) + TextRank(t.msg.text)
      [] OTHER -> 99

TaskInsert(q, t) ==
    LET before == {i \in 1..Len(q) : TaskRank(q[i]) <= TaskRank(t)}
        n == Cardinality(before)
    IN SubSeq(q, 1, n) \o <<t>> \o SubSeq(q, n + 1, Len(q))

TasksOf(type) == {i \in 1..Len(tasks) : tasks[i].type = type}

-----------------------------------------------------------------------------
(* Persistence: prisma.whatsAppSession *)

RowExists(sid) == whatsAppSession[sid] # "ABSENT"

(* prisma.whatsAppSession.update({ where: { id }, data: { status } }):       *)
(* the row takes the status; on a missing row (P2025) nothing is written.    *)
PrismaUpdateStatus(sid, status) ==
    IF RowExists(sid) THEN [whatsAppSession EXCEPT ![sid] = status]
    ELSE whatsAppSession

-----------------------------------------------------------------------------
(* Baileys implementation *)

DisconnectReason_loggedOut == 401

(* The status codes and messages a close event is tried with: 0 stands for  *)
(* an absent lastDisconnect.error (statusCode undefined), 515 is Baileys'    *)
(* restartRequired. Every code is tried with an empty message, and each of   *)
(* the two messages the handler looks for with an absent code.               *)
StatusCodes == {0, 401, 408, 428, 515}
ErrorMessages == {"", "QR refs attempts ended", "Connection Terminated by Server"}
CloseReasons ==
    {r \in [statusCode : StatusCodes, errorMessage : ErrorMessages] :
        r.errorMessage = "" \/ r.statusCode = 0}

(* sock.user?.id ? sock.user.id.split(':')[0] : 'Unknown' *)
Users == {"5511999990000"}

(* Faulty variant: the entry a start would write is the default. *)
B_getSessionStatus_starting(sid) ==
    IF sid \in DOMAIN sessions THEN sessions[sid]
    ELSE SessionInfo("STARTING", "null", "null", "")

B_getSessionStatus(sid) ==
    IF sid \in DOMAIN sessions THEN sessions[sid]
    ELSE SessionInfo("DISCONNECTED", "null", "null", "")

B_updateSessionState(sid, state) == MapSet(sessions, sid, state)

(* persistStatus is called without await: the update is issued and resolves *)
(* later; its rejection is swallowed by .catch(() => {}).                   *)
B_persistStatus(q, sid, status) ==
    TaskInsert(q, [type |-> "persist", sessionId |-> sid, status |-> status])

B_SocketLive(k) == socks[k].state \in {"connecting", "open"}

B_LiveSockets(sid) == {k \in 1..Len(socks) : socks[k].sessionId = sid /\ B_SocketLive(k)}

(* The guard `if (this.sockets.has(sessionId)) return` of startClient. *)
B_AlreadyRunning(sid) == sid \in DOMAIN sockets

(* startClient up to its first await (prisma.whatsAppSession.findUnique);   *)
(* q is the pending work the call is added to.                              *)
B_startClient(q, tenantId, sid, sessionName, linkedAgentId) ==
    IF B_AlreadyRunning(sid)
    THEN /\ tasks' = q
         /\ lastOp' = [op |-> "start", sid |-> sid, result |-> "noop"]
    ELSE /\ Len(q) < MaxTasks
         /\ tasks' = TaskInsert(q, [type |-> "start", pc |-> "findUnique",
                                    tenantId |-> tenantId, sessionId |-> sid,
                                    sessionName |-> sessionName,
                                    linkedAgentId |-> linkedAgentId])
         /\ lastOp' = [op |-> "start", sid |-> sid, result |-> "suspended"]

(* POST /whatsapp/sessions/:id/start: the row is looked up, then startClient *)
(* is called with its columns.                                               *)
B_RouteStart(sid) ==
    /\ RowExists(sid)
    /\ B_startClient(tasks, TenantOf(sid), sid, NameOf(sid), AgentOf(sid))
    /\ UNCHANGED <<sessions, whatsAppSession, sockets, socks, deleting>>
    /\ B_frame

(* findUnique resolves: no row -> return; else STARTING and the next await. *)
B_startAfterFindUnique(i) ==
    LET c == tasks[i] IN
    /\ c.type = "start" /\ c.pc = "findUnique"
    /\ \E dbOk \in BOOLEAN :
         IF ~dbOk
         THEN /\ tasks' = SeqRemove(tasks, i)
              /\ lastOp' = [op |-> "start", sid |-> c.sessionId, result |-> "lookupThrew"]
              /\ UNCHANGED sessions
         ELSE IF ~RowExists(c.sessionId)
         THEN /\ tasks' = SeqRemove(tasks, i)
              /\ lastOp' = [op |-> "start", sid |-> c.sessionId, result |-> "norow"]
              /\ UNCHANGED sessions
         ELSE /\ sessions' = B_updateSessionState(c.sessionId,
                                SessionInfo("STARTING", "null", "null", c.sessionName))
              /\ tasks' = TaskInsert(SeqRemove(tasks, i),
                                      [c EXCEPT !.pc = "usePrismaAuthState"])
              /\ lastOp' = [op |-> "start", sid |-> c.sessionId, result |-> "starting"]
    /\ UNCHANGED <<whatsAppSession, sockets, socks, deleting>>
    /\ B_frame

(* usePrismaAuthState and fetchLatestBaileysVersion resolve (two awaits with  *)
(* nothing of the manager read or written between them: one suspension), then *)
(* makeWASocket and this.sockets.set. Nothing in startClient catches a        *)
(* rejection of either await or a throw of makeWASocket.                      *)
B_startAfterAuthState(i) ==
    LET c == tasks[i] IN
    /\ c.type = "start" /\ c.pc = "usePrismaAuthState"
    /\ \E ok \in BOOLEAN :
         IF ok
         THEN /\ Len(socks) < MaxSockets
              /\ socks' = Append(socks, [sessionId |-> c.sessionId, tenantId |-> c.tenantId,
                                         sessionName |-> c.sessionName,
                                         linkedAgentId |-> c.linkedAgentId,
                                         state |-> "connecting"])
              /\ sockets' = MapSet(sockets, c.sessionId, Len(socks) + 1)
              /\ lastOp' = [op |-> "start", sid |-> c.sessionId, result |-> "socket"]
         ELSE /\ lastOp' = [op |-> "start", sid |-> c.sessionId, result |-> "threw"]
              /\ UNCHANGED <<socks, sockets>>
    /\ tasks' = SeqRemove(tasks, i)
    /\ UNCHANGED <<sessions, whatsAppSession, deleting>>
    /\ B_frame

(* connection.update carrying a qr: the handler suspends at QRCode.toDataURL. *)
B_onQr(k) ==
    /\ socks[k].state = "connecting"
    /\ Room
    /\ tasks' = TaskInsert(tasks, [type |-> "qr", sock |-> k])
    /\ lastOp' = [op |-> "qr", sid |-> socks[k].sessionId, result |-> "suspended"]
    /\ UNCHANGED <<sessions, whatsAppSession, sockets, socks, deleting>>
    /\ B_frame

(* QRCode.toDataURL resolves: registry QRCODE with the image, status persisted; *)
(* a rejection is caught and logged.                                           *)
B_qrAfterToDataURL(i) ==
    /\ tasks[i].type = "qr"
    /\ LET k == tasks[i].sock
           sid == socks[k].sessionId IN
       \E ok \in BOOLEAN :
         IF ok
         THEN /\ sessions' = B_updateSessionState(sid,
                                SessionInfo("QRCODE", "qrImage", "null", socks[k].sessionName))
              /\ tasks' = B_persistStatus(SeqRemove(tasks, i), sid, "QRCODE")
              /\ lastOp' = [op |-> "qr", sid |-> sid, result |-> "shown"]
         ELSE /\ tasks' = SeqRemove(tasks, i)
              /\ lastOp' = [op |-> "qr", sid |-> sid, result |-> "failed"]
              /\ UNCHANGED sessions
    /\ UNCHANGED <<whatsAppSession, sockets, socks, deleting>>
    /\ B_frame

(* connection.update with connection === 'open'. *)
B_onOpen(k, user) ==
    /\ socks[k].state = "connecting"
    /\ Room
    /\ LET sid == socks[k].sessionId IN
         /\ socks' = [socks EXCEPT ![k].state = "open"]
         /\ sessions' = B_updateSessionState(sid,
                           SessionInfo("CONNECTED", "null", user, socks[k].sessionName))
         /\ tasks' = B_persistStatus(tasks, sid, "CONNECTED")
         /\ lastOp' = [op |-> "open", sid |-> sid, result |-> "connected"]
    /\ UNCHANGED <<whatsAppSession, sockets, deleting>>
    /\ B_frame

B_isQrTimeout(statusCode, errorMessage) ==
    \/ errorMessage = "QR refs attempts ended"
    \/ errorMessage = "Connection Terminated by Server"
    \/ statusCode = 408
    \/ statusCode = 428

(* Faulty variant: the two conditions joined with || instead of &&. *)
B_shouldReconnect_or(statusCode, errorMessage) ==
    statusCode # DisconnectReason_loggedOut \/ ~B_isQrTimeout(statusCode, errorMessage)

B_shouldReconnect(statusCode, errorMessage) ==
    statusCode # DisconnectReason_loggedOut /\ ~B_isQrTimeout(statusCode, errorMessage)

(* Faulty variant: the close branch without its guard. *)
B_RemovedByStop_unchecked(sid) == FALSE

(* `if (!this.sockets.has(sessionId)) return` of the close branch: the socket *)
(* was removed by stopClient.                                                 *)
B_RemovedByStop(sid) == sid \notin DOMAIN sockets

(* setTimeout(() => this.startClient(tenantId, sessionId, sessionName,        *)
(* linkedAgentId), 2000) with the arguments the socket's closure captured.    *)
B_retryOf(k) ==
    [type |-> "retry", tenantId |-> socks[k].tenantId, sessionId |-> socks[k].sessionId,
     sessionName |-> socks[k].sessionName, linkedAgentId |-> socks[k].linkedAgentId]

(* connection.update with connection === 'close', for a socket that is live *)
(* or that stopClient has ended.                                             *)
B_onClose(k, statusCode, errorMessage) ==
    /\ socks[k].state \in {"connecting", "open", "ended"}
    /\ socks' = [socks EXCEPT ![k].state = "closed"]
    /\ LET sid == socks[k].sessionId IN
       IF B_RemovedByStop(sid)
       THEN /\ lastOp' = [op |-> "close", sid |-> sid, result |-> "ignored",
                          ended |-> socks[k].state = "ended"]
            /\ UNCHANGED <<sessions, sockets, tasks>>
       ELSE IF B_shouldReconnect(statusCode, errorMessage)
       THEN /\ Room
            /\ sockets' = MapDelete(sockets, sid)
            /\ tasks' = TaskInsert(tasks, B_retryOf(k))
            /\ lastOp' = [op |-> "close", sid |-> sid, result |-> "reconnect",
                          ended |-> socks[k].state = "ended"]
            /\ UNCHANGED sessions
       ELSE /\ Room
            /\ sockets' = MapDelete(sockets, sid)
            /\ sessions' = B_updateSessionState(sid,
                              SessionInfo("DISCONNECTED", "null", "null", socks[k].sessionName))
            /\ tasks' = B_persistStatus(tasks, sid, "DISCONNECTED")
            /\ lastOp' = [op |-> "close", sid |-> sid, result |-> "terminal",
                          ended |-> socks[k].state = "ended"]
    /\ UNCHANGED <<whatsAppSession, deleting>>
    /\ B_frame

(* The reconnect timer fires: this.startClient with the captured arguments. *)
B_retryTimerFires(i) ==
    /\ tasks[i].type = "retry"
    /\ LET t == tasks[i] IN
         B_startClient(SeqRemove(tasks, i), t.tenantId, t.sessionId, t.sessionName,
                       t.linkedAgentId)
    /\ UNCHANGED <<sessions, whatsAppSession, sockets, socks, deleting>>
    /\ B_frame

(* stopClient: no await inside, it runs to its end in one step. *)
B_stopClient(sid) ==
    IF sid \in DOMAIN sockets
    THEN LET k == sockets[sid] IN
         /\ Room
         /\ sockets' = MapDelete(sockets, sid)
         /\ socks' = [socks EXCEPT ![k].state = IF B_SocketLive(k) THEN "ended" ELSE @]
         /\ sessions' = B_updateSessionState(sid,
                           SessionInfo("DISCONNECTED", "null", "null", ""))
         /\ tasks' = B_persistStatus(tasks, sid, "DISCONNECTED")
         /\ lastOp' = [op |-> "stop", sid |-> sid, result |-> "stopped"]
    ELSE /\ lastOp' = [op |-> "stop", sid |-> sid, result |-> "noop"]
         /\ UNCHANGED <<sockets, socks, sessions, tasks>>

(* POST /whatsapp/sessions/:id/stop *)
B_RouteStop(sid) ==
    /\ RowExists(sid)
    /\ B_stopClient(sid)
    /\ UNCHANGED <<whatsAppSession, deleting>>
    /\ B_frame

(* DELETE /whatsapp/sessions/:id: await stopClient, then delete the row. *)
B_RouteDelete(sid) ==
    /\ RowExists(sid)
    /\ B_stopClient(sid)
    /\ deleting' = deleting \cup {sid}
    /\ UNCHANGED whatsAppSession
    /\ B_frame

B_RouteDeleteRow(sid) ==
    /\ sid \in deleting
    /\ deleting' = deleting \ {sid}
    /\ whatsAppSession' = [whatsAppSession EXCEPT ![sid] = "ABSENT"]
    /\ lastOp' = [op |-> "deleteRow", sid |-> sid, result |-> "deleted"]
    /\ UNCHANGED <<sessions, sockets, socks, tasks>>
    /\ B_frame

(* A prisma update issued by persistStatus resolves. *)
B_persistResolves(i) ==
    /\ tasks[i].type = "persist"
    /\ LET w == tasks[i] IN
       \E dbOk \in BOOLEAN :
         /\ whatsAppSession' = IF dbOk THEN PrismaUpdateStatus(w.sessionId, w.status)
                               ELSE whatsAppSession
         /\ lastOp' = [op |-> "persist", sid |-> w.sessionId,
                       result |-> IF dbOk /\ RowExists(w.sessionId) THEN "written"
                                  ELSE "swallowed"]
    /\ tasks' = SeqRemove(tasks, i)
    /\ UNCHANGED <<sessions, sockets, socks, deleting>>
    /\ B_frame

InitCommon ==
    /\ sessions = EmptyMap
    /\ whatsAppSession = [sid \in SessionIds |-> "DISCONNECTED"]
    /\ tasks = <<>>
    /\ deleting = {}
    /\ lastOp = [op |-> "init"]
    /\ sockets = EmptyMap
    /\ socks = <<>>
    /\ clients = EmptyMap
    /\ clis = <<>>
    /\ qrTimeouts = {}
    /\ customer = {}
    /\ message = <<>>
    /\ agent = {"agent2"}
    /\ stored = 0
    /\ appointment = <<>>
    /\ authKey = EmptyMap
    /\ restore = [pc |-> "idle"]

InitB == InitCommon /\ manager = "baileys"

NextB ==
    \/ \E sid \in SessionIds : B_RouteStart(sid)
    \/ \E i \in 1..Len(tasks) : B_startAfterFindUnique(i)
    \/ \E i \in 1..Len(tasks) : B_startAfterAuthState(i)
    \/ \E k \in 1..Len(socks) : B_onQr(k)
    \/ \E i \in 1..Len(tasks) : B_qrAfterToDataURL(i)
    \/ \E k \in 1..Len(socks), user \in Users : B_onOpen(k, user)
    \/ \E k \in 1..Len(socks), r \in CloseReasons :
          B_onClose(k, r.statusCode, r.errorMessage)
    \/ \E i \in 1..Len(tasks) : B_retryTimerFires(i)
    \/ \E sid \in SessionIds : B_RouteStop(sid)
    \/ \E sid \in SessionIds : B_RouteDelete(sid)
    \/ \E sid \in SessionIds : B_RouteDeleteRow(sid)
    \/ \E i \in 1..Len(tasks) : B_persistResolves(i)

SpecB == InitB /\ [][NextB]_vars

-----------------------------------------------------------------------------
(* whatsapp-web.js implementation *)

W_getSessionStatus(sid) ==
    IF sid \in DOMAIN sessions THEN sessions[sid]
    ELSE SessionInfo("DISCONNECTED", "null", "null", "")

(* Faulty variant: the entry keeps the QR image when the session stops. *)
W_Disconnected_keepsQr(sessionName) ==
    SessionInfo("DISCONNECTED", "qrImage", "null", sessionName)

W_Disconnected(sessionName) == SessionInfo("DISCONNECTED", "null", "null", sessionName)

(* Faulty variant: one timer slot for the manager, so clearing the timer of  *)
(* one session clears the timer of every session.                           *)
W_clearQrTimeout_all(sid) == {}

(* clearQrTimeout: clearTimeout and this.qrTimeouts.delete. *)
W_clearQrTimeout(sid) == qrTimeouts \ {sid}

(* A client emits events until it is destroyed or has disconnected. *)
W_ClientLive(c) == clis[c].state \in {"new", "ready"}

W_LiveClients(sid) == {c \in 1..Len(clis) : clis[c].sessionId = sid /\ W_ClientLive(c)}

(* Faulty variant: the guard reads the registry status instead of the map. *)
W_AlreadyRunning_byStatus(sid) ==
    sid \in DOMAIN sessions /\ sessions[sid].status = "CONNECTED"

(* The guard `if (this.clients.has(sessionId))` of startClient. *)
W_AlreadyRunning(sid) == sid \in DOMAIN clients

(* startClient up to `await client.initialize()`: nothing suspends between the *)
(* guard and this.clients.set.                                                 *)
W_startClient(tenantId, sid, sessionName, linkedAgentId) ==
    IF W_AlreadyRunning(sid)
    THEN /\ lastOp' = [op |-> "start", sid |-> sid, result |-> "noop"]
         /\ UNCHANGED <<sessions, clients, clis, tasks>>
    ELSE /\ Room
         /\ Len(clis) < MaxSockets
         /\ sessions' = MapSet(sessions, sid, SessionInfo("STARTING", "null", "null", sessionName))
         /\ clis' = Append(clis, [sessionId |-> sid, tenantId |-> tenantId,
                                  sessionName |-> sessionName,
                                  linkedAgentId |-> linkedAgentId, state |-> "new"])
         /\ clients' = MapSet(clients, sid, Len(clis) + 1)
         /\ tasks' = TaskInsert(tasks, [type |-> "W_init", client |-> Len(clis) + 1])
         /\ lastOp' = [op |-> "start", sid |-> sid, result |-> "suspended"]

(* POST /whatsapp/sessions/:id/start *)
W_RouteStart(sid) ==
    /\ RowExists(sid)
    /\ W_startClient(TenantOf(sid), sid, NameOf(sid), AgentOf(sid))
    /\ UNCHANGED <<whatsAppSession, qrTimeouts, deleting>>
    /\ W_frame

(* client.initialize() resolves, or rejects into the catch of startClient. *)
W_startAfterInitialize(i) ==
    /\ tasks[i].type = "W_init"
    /\ LET c == tasks[i].client
           sid == clis[c].sessionId IN
       \E ok \in BOOLEAN :
         IF ok
         THEN /\ lastOp' = [op |-> "start", sid |-> sid, result |-> "initialized"]
              /\ UNCHANGED <<sessions, clients, clis, qrTimeouts>>
         ELSE /\ qrTimeouts' = W_clearQrTimeout(sid)
              /\ sessions' = MapSet(sessions, sid, W_Disconnected(clis[c].sessionName))
              /\ clients' = MapDelete(clients, sid)
              /\ clis' = [clis EXCEPT ![c].state = "dead"]
              /\ lastOp' = [op |-> "start", sid |-> sid, result |-> "initFailed"]
    /\ tasks' = SeqRemove(tasks, i)
    /\ UNCHANGED <<whatsAppSession, deleting>>
    /\ W_frame

(* stopClient up to its first await: clearQrTimeout, then client.destroy() when *)
(* a client is registered, else the registry write and the prisma update.       *)
W_stopName(sid) ==
    IF sid \in DOMAIN sessions /\ sessions[sid].sessionName # ""
    THEN sessions[sid].sessionName ELSE "Sessao"

W_stopClient(q, sid, caller) ==
    /\ Len(q) < MaxTasks
    /\ qrTimeouts' = W_clearQrTimeout(sid)
    /\ IF sid \in DOMAIN clients
       THEN /\ clis' = [clis EXCEPT ![clients[sid]].state = "destroying"]
            /\ tasks' = TaskInsert(q, [type |-> "W_stop", pc |-> "destroy", sessionId |-> sid,
                                       caller |-> caller])
            /\ UNCHANGED sessions
       ELSE /\ sessions' = MapSet(sessions, sid, W_Disconnected(W_stopName(sid)))
            /\ tasks' = TaskInsert(q, [type |-> "W_stop", pc |-> "update", sessionId |-> sid,
                                       caller |-> caller])
            /\ UNCHANGED clis
    /\ lastOp' = [op |-> "stop", sid |-> sid, result |-> "called", caller |-> caller]
    /\ UNCHANGED clients

(* client.destroy() resolves (a rejection is caught): this.clients.delete, the *)
(* registry write, then the prisma update is awaited.                          *)
W_stopAfterDestroy(i) ==
    /\ tasks[i].type = "W_stop" /\ tasks[i].pc = "destroy"
    /\ LET sid == tasks[i].sessionId IN
         /\ clients' = MapDelete(clients, sid)
         /\ clis' = [c \in 1..Len(clis) |->
                        IF clis[c].sessionId = sid /\ clis[c].state = "destroying"
                        THEN [clis[c] EXCEPT !.state = "dead"] ELSE clis[c]]
         /\ sessions' = MapSet(sessions, sid, W_Disconnected(W_stopName(sid)))
         /\ tasks' = TaskInsert(SeqRemove(tasks, i), [tasks[i] EXCEPT !.pc = "update"])
         /\ lastOp' = [op |-> "stop", sid |-> sid, result |-> "destroyed",
                       caller |-> tasks[i].caller]
    /\ UNCHANGED <<whatsAppSession, qrTimeouts, deleting>>
    /\ W_frame

(* The prisma update of stopClient resolves (any rejection is swallowed) and   *)
(* stopClient returns; the DELETE route then deletes the row.                  *)
W_stopAfterUpdate(i) ==
    /\ tasks[i].type = "W_stop" /\ tasks[i].pc = "update"
    /\ LET sid == tasks[i].sessionId IN
       \E dbOk \in BOOLEAN :
         /\ whatsAppSession' = IF dbOk THEN PrismaUpdateStatus(sid, "DISCONNECTED")
                               ELSE whatsAppSession
         /\ deleting' = IF tasks[i].caller = "delete" THEN deleting \cup {sid} ELSE deleting
         /\ lastOp' = [op |-> "stop", sid |-> sid, result |-> "returned",
                       caller |-> tasks[i].caller]
    /\ tasks' = SeqRemove(tasks, i)
    /\ UNCHANGED <<sessions, clients, clis, qrTimeouts>>
    /\ W_frame

(* POST /whatsapp/sessions/:id/stop and DELETE /whatsapp/sessions/:id *)
W_RouteStop(sid) ==
    /\ RowExists(sid)
    /\ W_stopClient(tasks, sid, "api")
    /\ UNCHANGED <<whatsAppSession, deleting>>
    /\ W_frame

W_RouteDelete(sid) ==
    /\ RowExists(sid)
    /\ W_stopClient(tasks, sid, "delete")
    /\ UNCHANGED <<whatsAppSession, deleting>>
    /\ W_frame

W_RouteDeleteRow(sid) ==
    /\ sid \in deleting
    /\ deleting' = deleting \ {sid}
    /\ whatsAppSession' = [whatsAppSession EXCEPT ![sid] = "ABSENT"]
    /\ lastOp' = [op |-> "deleteRow", sid |-> sid, result |-> "deleted"]
    /\ UNCHANGED <<sessions, clients, clis, qrTimeouts, tasks>>
    /\ W_frame

(* 'qr': the handler suspends at QRCode.toDataURL. *)
W_onQr(c) ==
    /\ clis[c].state = "new"
    /\ Room
    /\ tasks' = TaskInsert(tasks, [type |-> "W_qr", pc |-> "toDataURL", client |-> c])
    /\ lastOp' = [op |-> "qr", sid |-> clis[c].sessionId, result |-> "suspended"]
    /\ UNCHANGED <<sessions, whatsAppSession, clients, clis, qrTimeouts, deleting>>
    /\ W_frame

(* toDataURL resolves: registry QRCODE with the image, prisma update awaited. *)
W_qrAfterToDataURL(i) ==
    /\ tasks[i].type = "W_qr" /\ tasks[i].pc = "toDataURL"
    /\ LET c == tasks[i].client
           sid == clis[c].sessionId IN
         /\ sessions' = MapSet(sessions, sid,
                           SessionInfo("QRCODE", "qrImage", "null", clis[c].sessionName))
         /\ tasks' = TaskInsert(SeqRemove(tasks, i), [tasks[i] EXCEPT !.pc = "update"])
         /\ lastOp' = [op |-> "qr", sid |-> sid, result |-> "shown"]
    /\ UNCHANGED <<whatsAppSession, clients, clis, qrTimeouts, deleting>>
    /\ W_frame

(* The prisma update of the qr handler resolves: on P2025 (row deleted) the    *)
(* handler calls stopClient and returns; otherwise (written, or another error  *)
(* logged) it arms the QR timer unless one is armed.                           *)
W_qrAfterUpdate(i) ==
    /\ tasks[i].type = "W_qr" /\ tasks[i].pc = "update"
    /\ LET c == tasks[i].client
           sid == clis[c].sessionId IN
       IF ~RowExists(sid)
       THEN /\ W_stopClient(SeqRemove(tasks, i), sid, "qr")
            /\ UNCHANGED whatsAppSession
       ELSE \E dbOk \in BOOLEAN :
            /\ whatsAppSession' = IF dbOk THEN PrismaUpdateStatus(sid, "QRCODE")
                                  ELSE whatsAppSession
            /\ qrTimeouts' = qrTimeouts \cup {sid}
            /\ tasks' = SeqRemove(tasks, i)
            /\ lastOp' = [op |-> "qr", sid |-> sid, result |-> "armed"]
            /\ UNCHANGED <<sessions, clients, clis>>
    /\ UNCHANGED deleting
    /\ W_frame

(* The QR timer fires: stopClient. *)
W_qrTimeoutFires(sid) ==
    /\ sid \in qrTimeouts
    /\ W_stopClient(tasks, sid, "timer")
    /\ UNCHANGED <<whatsAppSession, deleting>>
    /\ W_frame

(* 'ready': clearQrTimeout, registry CONNECTED, prisma update awaited. *)
W_onReady(c, user) ==
    /\ clis[c].state = "new"
    /\ Room
    /\ LET sid == clis[c].sessionId IN
         /\ qrTimeouts' = W_clearQrTimeout(sid)
         /\ clis' = [clis EXCEPT ![c].state = "ready"]
         /\ sessions' = MapSet(sessions, sid,
                           SessionInfo("CONNECTED", "null", user, clis[c].sessionName))
         /\ tasks' = TaskInsert(tasks, [type |-> "W_ready", client |-> c])
         /\ lastOp' = [op |-> "ready", sid |-> sid, result |-> "connected"]
    /\ UNCHANGED <<whatsAppSession, clients, deleting>>
    /\ W_frame

(* The prisma update of the ready handler resolves: on P2025 stopClient. *)
W_readyAfterUpdate(i) ==
    /\ tasks[i].type = "W_ready"
    /\ LET c == tasks[i].client
           sid == clis[c].sessionId IN
       IF ~RowExists(sid)
       THEN /\ W_stopClient(SeqRemove(tasks, i), sid, "ready")
            /\ UNCHANGED whatsAppSession
       ELSE \E dbOk \in BOOLEAN :
            /\ whatsAppSession' = IF dbOk THEN PrismaUpdateStatus(sid, "CONNECTED")
                                  ELSE whatsAppSession
            /\ tasks' = SeqRemove(tasks, i)
            /\ lastOp' = [op |-> "ready", sid |-> sid, result |-> "persisted"]
            /\ UNCHANGED <<sessions, clients, clis, qrTimeouts>>
    /\ UNCHANGED deleting
    /\ W_frame

(* 'auth_failure': clearQrTimeout and stopClient. *)
W_onAuthFailure(c) ==
    /\ clis[c].state = "new"
    /\ W_stopClient(tasks, clis[c].sessionId, "auth_failure")
    /\ UNCHANGED <<whatsAppSession, deleting>>
    /\ W_frame

(* 'disconnected': clearQrTimeout, this.clients.delete, registry DISCONNECTED, *)
(* prisma update awaited.                                                      *)
W_onDisconnected(c) ==
    /\ W_ClientLive(c)
    /\ Room
    /\ LET sid == clis[c].sessionId IN
         /\ qrTimeouts' = W_clearQrTimeout(sid)
         /\ clients' = MapDelete(clients, sid)
         /\ clis' = [clis EXCEPT ![c].state = "dead"]
         /\ sessions' = MapSet(sessions, sid, W_Disconnected(clis[c].sessionName))
         /\ tasks' = TaskInsert(tasks, [type |-> "W_disc", sessionId |-> sid])
         /\ lastOp' = [op |-> "disconnected", sid |-> sid, result |-> "handled"]
    /\ UNCHANGED <<whatsAppSession, deleting>>
    /\ W_frame

(* The prisma update of the disconnected handler resolves; errors are ignored. *)
W_disconnectedAfterUpdate(i) ==
    /\ tasks[i].type = "W_disc"
    /\ LET sid == tasks[i].sessionId IN
       \E dbOk \in BOOLEAN :
         /\ whatsAppSession' = IF dbOk THEN PrismaUpdateStatus(sid, "DISCONNECTED")
                               ELSE whatsAppSession
         /\ lastOp' = [op |-> "disconnected", sid |-> sid, result |-> "persisted"]
    /\ tasks' = SeqRemove(tasks, i)
    /\ UNCHANGED <<sessions, clients, clis, qrTimeouts, deleting>>
    /\ W_frame

InitW == InitCommon /\ manager = "wwebjs"

NextW ==
    \/ \E sid \in SessionIds : W_RouteStart(sid)
    \/ \E i \in 1..Len(tasks) : W_startAfterInitialize(i)
    \/ \E sid \in SessionIds : W_RouteStop(sid)
    \/ \E sid \in SessionIds : W_RouteDelete(sid)
    \/ \E sid \in SessionIds : W_RouteDeleteRow(sid)
    \/ \E i \in 1..Len(tasks) : W_stopAfterDestroy(i)
    \/ \E i \in 1..Len(tasks) : W_stopAfterUpdate(i)
    \/ \E c \in 1..Len(clis) : W_onQr(c)
    \/ \E i \in 1..Len(tasks) : W_qrAfterToDataURL(i)
    \/ \E i \in 1..Len(tasks) : W_qrAfterUpdate(i)
    \/ \E sid \in SessionIds : W_qrTimeoutFires(sid)
    \/ \E c \in 1..Len(clis), user \in Users : W_onReady(c, user)
    \/ \E i \in 1..Len(tasks) : W_readyAfterUpdate(i)
    \/ \E c \in 1..Len(clis) : W_onAuthFailure(c)
    \/ \E c \in 1..Len(clis) : W_onDisconnected(c)
    \/ \E i \in 1..Len(tasks) : W_disconnectedAfterUpdate(i)

SpecW == InitW /\ [][NextW]_vars

-----------------------------------------------------------------------------
(* Either implementation *)

Init == InitB \/ InitW

Next ==
    \/ manager = "baileys" /\ NextB
    \/ manager = "wwebjs" /\ NextW

Spec == Init /\ [][Next]_vars

-----------------------------------------------------------------------------
(* Inbound messages *)

(* A JID "user@server" is kept as its two parts. *)
Jid(user, server) == [user |-> user, server |-> server]

(* An inbound message: the chat it belongs to (Baileys key.remoteJid,          *)
(* whatsapp-web.js id.remote), its sender (whatsapp-web.js from), whether the  *)
(* account itself sent it, whether it has a content node, and its text.        *)
Inbound(from, remote, fromMe, hasMessage, text) ==
    [from |-> from, remote |-> remote, fromMe |-> fromMe, hasMessage |-> hasMessage,
     text |-> text]

Person == Jid("5511988887777", "s.whatsapp.net")

Row(customerId, role, content) == [customerId |-> customerId, role |-> role, content |-> content]

Reverse(q) == [i \in 1..Len(q) |-> q[Len(q) + 1 - i]]

Take(q, n) == SubSeq(q, 1, IF Len(q) < n THEN Len(q) ELSE n)

(* The ids (positions) of the rows of one customer, oldest first. *)
RowsOf(customerId) ==
    SelectSeq([i \in 1..Len(message) |-> i], LAMBDA i : message[i].customerId = customerId)

(* The rows a handler may still insert: one user row and one reply each. *)
RowsRoom(n) == (Len(message) - stored) + 2 * (Len(tasks) + n) <= MaxNewRows

(* The conversations earlier runs can have left for the customer: optionally   *)
(* two messages that were processed concurrently (both user rows inserted      *)
(* before either reply), then exchanges answered one at a time.                *)
Exchanges(n) ==
    [j \in 1..(2 * n) |-> IF j % 2 = 1 THEN Row(Person.user, "user", "oi")
                                        ELSE Row(Person.user, "model", "Ola!")]

Burst ==
    <<Row(Person.user, "user", "oi"), Row(Person.user, "user", "oi"),
      Row(Person.user, "model", "Ola!"), Row(Person.user, "model", "Ola!")>>

StoredThreads ==
    {Exchanges(n) : n \in {m \in 0..MaxStored : 2 * m <= MaxStored}}
    \cup {Burst \o Exchanges(n) : n \in {m \in 0..MaxStored : 4 + 2 * m <= MaxStored}}

(* The catch of the per-message try: the error is logged and the handler ends. *)
(* Faulty variant: the failure of one handler ends the others too. *)
MsgFailed_dropsBatch(i) ==
    /\ tasks' = <<>>
    /\ lastOp' = [op |-> "message", result |-> "failed", msg |-> tasks[i].msg,
                  at |-> tasks[i].pc]
    /\ UNCHANGED <<customer, message>>

(* The rows of prisma.agent of the tenant in the order findFirst visits them; *)
(* the variable agent holds the ids of those with isActive.                  *)
AgentRows == <<"agent1", "agent2", "agent3">>

(* Faulty variant: the newest active agent instead of the first. *)
anyAgent_last ==
    LET active == {n \in 1..Len(AgentRows) : AgentRows[n] \in agent}
    IN IF active = {} THEN "null"
       ELSE AgentRows[CHOOSE n \in active : \A m \in active : m <= n]

(* prisma.agent.findFirst({ where: { tenantId, isActive: true } })?.id *)
anyAgent ==
    LET active == {n \in 1..Len(AgentRows) : AgentRows[n] \in agent}
    IN IF active = {} THEN "null"
       ELSE AgentRows[CHOOSE n \in active : \A m \in active : n <= m]

MsgFailed(i) ==
    /\ tasks' = SeqRemove(tasks, i)
    /\ lastOp' = [op |-> "message", result |-> "failed", msg |-> tasks[i].msg,
                  at |-> tasks[i].pc]
    /\ UNCHANGED <<customer, message>>

-----------------------------------------------------------------------------
(* Inbound messages: Baileys, the messages.upsert handler *)

B_Texts == {"", "oi"}

B_InboundMessages ==
    {Inbound(Person, Person, FALSE, TRUE, t) : t \in B_Texts}
    \cup {Inbound(Person, Person, TRUE, TRUE, "oi"),
          Inbound(Person, Person, FALSE, FALSE, ""),
          Inbound(Jid("120363000000000001", "g.us"), Jid("120363000000000001", "g.us"),
                  FALSE, TRUE, "oi"),
          Inbound(Jid("status", "broadcast"), Jid("status", "broadcast"), FALSE, TRUE, "oi"),
          Inbound(Jid("1700000000", "broadcast"), Jid("1700000000", "broadcast"),
                  FALSE, TRUE, "oi")}

B_TextMessage == Inbound(Person, Person, FALSE, TRUE, "oi")

(* The events: a batch of one message, or of the text message and a sibling. *)
B_UpsertEvents ==
    {[type |-> "notify", messages |-> <<m>>] : m \in B_InboundMessages}
    \cup {[type |-> "notify", messages |-> <<B_TextMessage, m>>] : m \in B_InboundMessages}
    \cup {[type |-> "notify", messages |-> <<m, B_TextMessage>>] : m \in B_InboundMessages}
    \cup {[type |-> "append", messages |-> <<B_TextMessage>>]}

(* The filters of the loop: a message passes when none of the `continue`s fires. *)
B_Passes(msg) ==
    /\ msg.hasMessage
    /\ ~msg.fromMe
    /\ ~(msg.remote.server = "g.us" \/ msg.remote = Jid("status", "broadcast"))
    /\ msg.text # ""

B_HistoryTake == 10

(* messages.upsert: each message that passes starts its own asyncContext.run, *)
(* which runs up to the await of prisma.customer.upsert.                      *)
B_onMessagesUpsert(k, batch, type) ==
    /\ socks[k].state = "open"
    /\ LET passing == IF type = "notify" THEN SelectSeq(batch, B_Passes) ELSE <<>>
           spawn[n \in 0..Len(passing)] ==
               IF n = 0 THEN tasks
               ELSE TaskInsert(spawn[n - 1], [type |-> "B_msg", pc |-> "customer", sock |-> k,
                                              msg |-> passing[n], exclude |-> 0,
                                              agentId |-> "null"])
       IN /\ Len(tasks) + Len(passing) <= MaxTasks
          /\ RowsRoom(Len(passing))
          /\ tasks' = spawn[Len(passing)]
          /\ lastOp' = [op |-> "upsert", result |-> Len(passing)]
    /\ UNCHANGED <<customer, message>>
    /\ M_frame

(* prisma.customer.upsert resolves; prisma.message.create is awaited. *)
B_msgAfterCustomer(i) ==
    /\ tasks[i].type = "B_msg" /\ tasks[i].pc = "customer"
    /\ \E ok \in BOOLEAN :
         IF ok
         THEN /\ customer' = customer \cup {tasks[i].msg.remote.user}
              /\ tasks' = TaskInsert(SeqRemove(tasks, i), [tasks[i] EXCEPT !.pc = "create"])
              /\ lastOp' = [op |-> "message", result |-> "customer", msg |-> tasks[i].msg]
              /\ UNCHANGED message
         ELSE MsgFailed(i)
    /\ M_frame

(* Faulty variant: a rejected insert of the user row does not end the handler. *)
B_msgAfterCreate_lossy(i) ==
    /\ tasks[i].type = "B_msg" /\ tasks[i].pc = "create"
    /\ \E ok \in BOOLEAN :
         /\ message' = IF ok THEN Append(message, Row(tasks[i].msg.remote.user, "user",
                                                       tasks[i].msg.text))
                        ELSE message
         /\ tasks' = TaskInsert(SeqRemove(tasks, i),
                        [tasks[i] EXCEPT !.agentId = socks[tasks[i].sock].linkedAgentId,
                                         !.pc = IF socks[tasks[i].sock].linkedAgentId # "null"
                                                THEN "findFirst" ELSE "agent"])
         /\ lastOp' = [op |-> "message", result |-> "saved", msg |-> tasks[i].msg]
         /\ UNCHANGED customer
    /\ M_frame

(* prisma.message.create of the user row resolves; a linked agent is used, *)
(* else prisma.agent.findFirst is awaited.                                 *)
B_msgAfterCreate(i) ==
    /\ tasks[i].type = "B_msg" /\ tasks[i].pc = "create"
    /\ \E ok \in BOOLEAN :
         IF ok
         THEN /\ message' = Append(message, Row(tasks[i].msg.remote.user, "user",
                                               tasks[i].msg.text))
              /\ tasks' = TaskInsert(SeqRemove(tasks, i),
                             [tasks[i] EXCEPT !.agentId = socks[tasks[i].sock].linkedAgentId,
                                              !.pc = IF socks[tasks[i].sock].linkedAgentId # "null"
                                                     THEN "findFirst" ELSE "agent"])
              /\ lastOp' = [op |-> "message", result |-> "saved", msg |-> tasks[i].msg]
              /\ UNCHANGED customer
         ELSE MsgFailed(i)
    /\ M_frame

(* prisma.agent.findFirst resolves: without an active agent the handler returns. *)
B_msgAfterAgent(i) ==
    /\ tasks[i].type = "B_msg" /\ tasks[i].pc = "agent"
    /\ \E ok \in BOOLEAN :
         IF ok
         THEN /\ IF anyAgent = "null"
                 THEN /\ tasks' = SeqRemove(tasks, i)
                      /\ lastOp' = [op |-> "message", result |-> "noAgent", msg |-> tasks[i].msg]
                 ELSE /\ tasks' = TaskInsert(SeqRemove(tasks, i),
                                             [tasks[i] EXCEPT !.pc = "findFirst",
                                                              !.agentId = anyAgent])
                      /\ lastOp' = [op |-> "message", result |-> "agent", msg |-> tasks[i].msg]
              /\ UNCHANGED <<customer, message>>
         ELSE MsgFailed(i)
    /\ M_frame

(* The inner prisma.message.findFirst resolves with the customer's newest row, *)
(* whose id the findMany excludes; prisma.message.findMany is awaited.         *)
B_msgAfterFindFirst(i) ==
    /\ tasks[i].type = "B_msg" /\ tasks[i].pc = "findFirst"
    /\ \E ok \in BOOLEAN :
         IF ok
         THEN /\ LET rows == RowsOf(tasks[i].msg.remote.user) IN
                 tasks' = TaskInsert(SeqRemove(tasks, i),
                             [tasks[i] EXCEPT !.pc = "findMany",
                                              !.exclude = IF rows = <<>> THEN 0
                                                          ELSE rows[Len(rows)]])
              /\ lastOp' = [op |-> "message", result |-> "newest", msg |-> tasks[i].msg]
              /\ UNCHANGED <<customer, message>>
         ELSE MsgFailed(i)
    /\ M_frame

(* findMany: the customer's rows but the excluded one, newest first, take 10. *)
B_historyRaw(customerId, exclude) ==
    Take(Reverse(SelectSeq(RowsOf(customerId), LAMBDA id : id # exclude)), B_HistoryTake)

(* historyRaw.reverse().map(...), then one shift() when the first is 'model'. *)
B_history(historyRaw) ==
    LET mapped == [j \in 1..Len(historyRaw) |->
                     [role |-> IF message[Reverse(historyRaw)[j]].role = "user"
                               THEN "user" ELSE "model",
                      text |-> message[Reverse(historyRaw)[j]].content]]
    IN IF Len(mapped) > 0 /\ mapped[1].role = "model" THEN Tail(mapped) ELSE mapped

(* prisma.message.findMany resolves: the history is assembled and aiService.chat *)
(* is awaited.                                                                   *)
B_msgAfterFindMany(i) ==
    /\ tasks[i].type = "B_msg" /\ tasks[i].pc = "findMany"
    /\ \E ok \in BOOLEAN :
         IF ok
         THEN /\ tasks' = TaskInsert(SeqRemove(tasks, i),
                                     [tasks[i] EXCEPT !.pc = "chat", !.exclude = 0])
              /\ lastOp' = [op |-> "chat", msg |-> tasks[i].msg,
                            agentId |-> tasks[i].agentId,
                            history |-> B_history(B_historyRaw(tasks[i].msg.remote.user,
                                                               tasks[i].exclude))]
              /\ UNCHANGED <<customer, message>>
         ELSE MsgFailed(i)
    /\ M_frame

(* What aiService.chat resolves to: { response: null }, or the text of the *)
(* completion, which can be the empty string.                              *)
Responses == {"null", "", "Ola!"}

(* Faulty variant: the agent validation accepts any agent id. *)
AI_agentValid_any(agentId) == agentId # "null"

(* chat: `!agent || !agent.isActive` is false, the agent exists and is active. *)
AI_agentValid(agentId) == agentId \in agent

(* chat returns { response: null } before any completion for an agent that *)
(* fails the validation.                                                   *)
AI_chatResponses(agentId) == IF AI_agentValid(agentId) THEN Responses ELSE {"null"}

(* aiService.chat resolves: a response is sent with sock.sendMessage. *)
B_msgAfterChat(i) ==
    /\ tasks[i].type = "B_msg" /\ tasks[i].pc = "chat"
    /\ \E ok \in BOOLEAN, response \in AI_chatResponses(tasks[i].agentId) :
         IF ok
         THEN /\ IF response \in {"null", ""}
                 THEN /\ tasks' = SeqRemove(tasks, i)
                      /\ lastOp' = [op |-> "message", result |-> "noResponse",
                                    msg |-> tasks[i].msg, response |-> response]
                 ELSE /\ tasks' = TaskInsert(SeqRemove(tasks, i),
                                             ("response" :> response)
                                                @@ [tasks[i] EXCEPT !.pc = "send"])
                      /\ lastOp' = [op |-> "message", result |-> "sending",
                                    msg |-> tasks[i].msg, response |-> response,
                                    to |-> tasks[i].msg.remote]
              /\ UNCHANGED <<customer, message>>
         ELSE MsgFailed(i)
    /\ M_frame

(* Faulty variant: the reply is persisted whether or not it was sent. *)
B_msgAfterSend_unchecked(i) ==
    /\ tasks[i].type = "B_msg" /\ tasks[i].pc = "send"
    /\ \E ok \in BOOLEAN :
         /\ tasks' = TaskInsert(SeqRemove(tasks, i), [tasks[i] EXCEPT !.pc = "reply"])
         /\ lastOp' = [op |-> "message", result |-> IF ok THEN "sent" ELSE "failed",
                       msg |-> tasks[i].msg]
         /\ UNCHANGED <<customer, message>>
    /\ M_frame

(* sock.sendMessage resolves; prisma.message.create of the reply is awaited. *)
B_msgAfterSend(i) ==
    /\ tasks[i].type = "B_msg" /\ tasks[i].pc = "send"
    /\ \E ok \in BOOLEAN :
         IF ok
         THEN /\ tasks' = TaskInsert(SeqRemove(tasks, i), [tasks[i] EXCEPT !.pc = "reply"])
              /\ lastOp' = [op |-> "message", result |-> "sent", msg |-> tasks[i].msg]
              /\ UNCHANGED <<customer, message>>
         ELSE MsgFailed(i)
    /\ M_frame

(* prisma.message.create of the reply resolves. *)
B_msgAfterReply(i) ==
    /\ tasks[i].type = "B_msg" /\ tasks[i].pc = "reply"
    /\ \E ok \in BOOLEAN :
         IF ok
         THEN /\ message' = Append(message, Row(tasks[i].msg.remote.user, "model",
                                                tasks[i].response))
              /\ tasks' = SeqRemove(tasks, i)
              /\ lastOp' = [op |-> "message", result |-> "replied", msg |-> tasks[i].msg]
              /\ UNCHANGED customer
         ELSE MsgFailed(i)
    /\ M_frame

(* A connected session: its socket is open and registered. *)
InitMsgB ==
    /\ manager = "baileys"
    /\ \E linkedAgentId \in {"agent1", "null"} :
         socks = <<[sessionId |-> "s1", tenantId |-> TenantOf("s1"),
                    sessionName |-> NameOf("s1"), linkedAgentId |-> linkedAgentId,
                    state |-> "open"]>>
    /\ sockets = [sid \in {"s1"} |-> 1]
    /\ sessions = [sid \in {"s1"} |->
                     SessionInfo("CONNECTED", "null", "5511999990000", NameOf("s1"))]
    /\ whatsAppSession = [sid \in SessionIds |-> "CONNECTED"]
    /\ agent \in {{}, {"agent2"}, {"agent2", "agent3"}}
    /\ (socks[1].linkedAgentId # "null" => agent = {"agent2"})
    /\ message \in StoredThreads
    /\ stored = Len(message)
    /\ customer = IF message = <<>> THEN {} ELSE {Person.user}
    /\ tasks = <<>> /\ deleting = {}
    /\ clients = EmptyMap /\ clis = <<>> /\ qrTimeouts = {}
    /\ appointment = <<>> /\ authKey = EmptyMap /\ restore = [pc |-> "idle"]
    /\ lastOp = [op |-> "init"]

NextMsgB ==
    \/ \E k \in 1..Len(socks), ev \in B_UpsertEvents :
          B_onMessagesUpsert(k, ev.messages, ev.type)
    \/ \E i \in 1..Len(tasks) : B_msgAfterCustomer(i)
    \/ \E i \in 1..Len(tasks) : B_msgAfterCreate(i)
    \/ \E i \in 1..Len(tasks) : B_msgAfterAgent(i)
    \/ \E i \in 1..Len(tasks) : B_msgAfterFindFirst(i)
    \/ \E i \in 1..Len(tasks) : B_msgAfterFindMany(i)
    \/ \E i \in 1..Len(tasks) : B_msgAfterChat(i)
    \/ \E i \in 1..Len(tasks) : B_msgAfterSend(i)
    \/ \E i \in 1..Len(tasks) : B_msgAfterReply(i)

SpecMsgB == InitMsgB /\ [][NextMsgB]_vars

-----------------------------------------------------------------------------
(* Inbound messages: whatsapp-web.js, the message handler *)

W_Person == Jid(Person.user, "c.us")

W_Bodies == {"", "oi", "ok"}

(* The library emits 'message' for received messages only, each with a body *)
(* string (empty when the message carries no text).                         *)
W_InboundMessages ==
    {Inbound(W_Person, W_Person, FALSE, TRUE, body) : body \in W_Bodies}
    \cup {Inbound(Jid("120363000000000001", "g.us"), Jid("120363000000000001", "g.us"),
                  FALSE, TRUE, "oi"),
          Inbound(Jid("status", "broadcast"), Jid("status", "broadcast"), FALSE, TRUE, "oi"),
          Inbound(W_Person, Jid("1700000000", "broadcast"), FALSE, TRUE, "oi")}

(* The first line of the handler: what it does not return on. *)
W_Passes(msg) ==
    ~(\/ msg.from.server = "g.us"
      \/ msg.from = Jid("status", "broadcast")
      \/ msg.remote.server = "broadcast")

W_HistoryTake == 20

(* 'message': asyncContext.run starts; msg.getContact() (its failure ignored) *)
(* changes nothing of the state, so the handler is taken up at the await of   *)
(* prisma.customer.findUnique.                                                *)
W_onMessage(c, msg) ==
    /\ clis[c].state = "ready"
    /\ IF W_Passes(msg)
       THEN /\ Room
            /\ RowsRoom(1)
            /\ tasks' = TaskInsert(tasks, [type |-> "W_msg", pc |-> "customer", client |-> c,
                                           msg |-> msg, agentId |-> "null"])
            /\ lastOp' = [op |-> "onMessage", result |-> 1]
       ELSE /\ lastOp' = [op |-> "onMessage", result |-> 0]
            /\ UNCHANGED tasks
    /\ UNCHANGED <<customer, message>>
    /\ M_frame

(* prisma.customer.findUnique resolves: a missing customer is created. *)
W_msgAfterFindUnique(i) ==
    /\ tasks[i].type = "W_msg" /\ tasks[i].pc = "customer"
    /\ \E ok \in BOOLEAN :
         IF ok
         THEN /\ tasks' = TaskInsert(SeqRemove(tasks, i),
                             [tasks[i] EXCEPT !.pc = IF tasks[i].msg.from.user \in customer
                                                     THEN "create" ELSE "customerCreate"])
              /\ lastOp' = [op |-> "message", result |-> "lookedUp", msg |-> tasks[i].msg]
              /\ UNCHANGED <<customer, message>>
         ELSE MsgFailed(i)
    /\ M_frame

(* prisma.customer.create resolves; (tenantId, phone) is unique, so it rejects *)
(* when another handler has created the customer meanwhile.                    *)
W_msgAfterCustomerCreate(i) ==
    /\ tasks[i].type = "W_msg" /\ tasks[i].pc = "customerCreate"
    /\ \E ok \in BOOLEAN :
         IF ~ok THEN MsgFailed(i)
         ELSE IF tasks[i].msg.from.user \notin customer
         THEN /\ customer' = customer \cup {tasks[i].msg.from.user}
              /\ tasks' = TaskInsert(SeqRemove(tasks, i), [tasks[i] EXCEPT !.pc = "create"])
              /\ lastOp' = [op |-> "message", result |-> "customer", msg |-> tasks[i].msg]
              /\ UNCHANGED message
         ELSE /\ tasks' = SeqRemove(tasks, i)
              /\ lastOp' = [op |-> "message", result |-> "failed", msg |-> tasks[i].msg,
                            code |-> "P2002"]
              /\ UNCHANGED <<customer, message>>
    /\ M_frame

(* prisma.message.create of the user row resolves; a linked agent is used, *)
(* else prisma.agent.findFirst is awaited.                                 *)
W_msgAfterCreate(i) ==
    /\ tasks[i].type = "W_msg" /\ tasks[i].pc = "create"
    /\ \E ok \in BOOLEAN :
         IF ok
         THEN /\ message' = Append(message, Row(tasks[i].msg.from.user, "user",
                                               tasks[i].msg.text))
              /\ tasks' = TaskInsert(SeqRemove(tasks, i),
                             [tasks[i] EXCEPT !.agentId = clis[tasks[i].client].linkedAgentId,
                                              !.pc = IF clis[tasks[i].client].linkedAgentId # "null"
                                                     THEN "findMany" ELSE "agent"])
              /\ lastOp' = [op |-> "message", result |-> "saved", msg |-> tasks[i].msg]
              /\ UNCHANGED customer
         ELSE MsgFailed(i)
    /\ M_frame

(* The agent lookup without the return of line 207. *)
W_msgAfterAgent_noReturn(i) ==
    /\ tasks[i].type = "W_msg" /\ tasks[i].pc = "agent"
    /\ tasks' = TaskInsert(SeqRemove(tasks, i), [tasks[i] EXCEPT !.pc = "findMany"])
    /\ lastOp' = [op |-> "message", result |-> "agent", msg |-> tasks[i].msg]
    /\ UNCHANGED <<customer, message>>
    /\ M_frame

(* prisma.agent.findFirst resolves: without an active agent the handler returns. *)
W_msgAfterAgent(i) ==
    /\ tasks[i].type = "W_msg" /\ tasks[i].pc = "agent"
    /\ \E ok \in BOOLEAN :
         IF ok
         THEN /\ IF anyAgent = "null"
                 THEN /\ tasks' = SeqRemove(tasks, i)
                      /\ lastOp' = [op |-> "message", result |-> "noAgent", msg |-> tasks[i].msg]
                 ELSE /\ tasks' = TaskInsert(SeqRemove(tasks, i),
                                             [tasks[i] EXCEPT !.pc = "findMany",
                                                              !.agentId = anyAgent])
                      /\ lastOp' = [op |-> "message", result |-> "agent", msg |-> tasks[i].msg]
              /\ UNCHANGED <<customer, message>>
         ELSE MsgFailed(i)
    /\ M_frame

(* while (rawHistory.length > 0 && rawHistory[0].role === 'model') rawHistory.shift() *)
RECURSIVE W_dropLeadingModel(_)
W_dropLeadingModel(ids) ==
    IF Len(ids) > 0 /\ message[ids[1]].role = "model"
    THEN W_dropLeadingModel(Tail(ids)) ELSE ids

(* findMany newest first take 20, reverse(), the rows whose content is the   *)
(* body filtered out, the leading 'model' rows dropped, then the map.        *)
W_history(customerId, body) ==
    LET previousMessages == Take(Reverse(RowsOf(customerId)), W_HistoryTake)
        filtered == SelectSeq(Reverse(previousMessages),
                              LAMBDA id : message[id].content # body)
        rawHistory == W_dropLeadingModel(filtered)
    IN [j \in 1..Len(rawHistory) |->
           [role |-> IF message[rawHistory[j]].role = "user" THEN "user" ELSE "model",
            text |-> message[rawHistory[j]].content]]

(* prisma.message.findMany resolves: the history is assembled and aiService.chat *)
(* is awaited.                                                                   *)
W_msgAfterFindMany(i) ==
    /\ tasks[i].type = "W_msg" /\ tasks[i].pc = "findMany"
    /\ \E ok \in BOOLEAN :
         IF ok
         THEN /\ tasks' = TaskInsert(SeqRemove(tasks, i), [tasks[i] EXCEPT !.pc = "chat"])
              /\ lastOp' = [op |-> "chat", msg |-> tasks[i].msg,
                            agentId |-> tasks[i].agentId,
                            history |-> W_history(tasks[i].msg.from.user, tasks[i].msg.text)]
              /\ UNCHANGED <<customer, message>>
         ELSE MsgFailed(i)
    /\ M_frame

(* aiService.chat resolves: a response is sent with msg.reply. *)
W_msgAfterChat(i) ==
    /\ tasks[i].type = "W_msg" /\ tasks[i].pc = "chat"
    /\ \E ok \in BOOLEAN, response \in AI_chatResponses(tasks[i].agentId) :
         IF ok
         THEN /\ IF response \in {"null", ""}
                 THEN /\ tasks' = SeqRemove(tasks, i)
                      /\ lastOp' = [op |-> "message", result |-> "noResponse",
                                    msg |-> tasks[i].msg, response |-> response]
                 ELSE /\ tasks' = TaskInsert(SeqRemove(tasks, i),
                                             ("response" :> response)
                                                @@ [tasks[i] EXCEPT !.pc = "send"])
                      /\ lastOp' = [op |-> "message", result |-> "sending",
                                    msg |-> tasks[i].msg, response |-> response,
                                    to |-> tasks[i].msg.from]
              /\ UNCHANGED <<customer, message>>
         ELSE MsgFailed(i)
    /\ M_frame

(* msg.reply resolves; prisma.message.create of the reply is awaited. *)
W_msgAfterSend(i) ==
    /\ tasks[i].type = "W_msg" /\ tasks[i].pc = "send"
    /\ \E ok \in BOOLEAN :
         IF ok
         THEN /\ tasks' = TaskInsert(SeqRemove(tasks, i), [tasks[i] EXCEPT !.pc = "reply"])
              /\ lastOp' = [op |-> "message", result |-> "sent", msg |-> tasks[i].msg]
              /\ UNCHANGED <<customer, message>>
         ELSE MsgFailed(i)
    /\ M_frame

(* prisma.message.create of the reply resolves. *)
W_msgAfterReply(i) ==
    /\ tasks[i].type = "W_msg" /\ tasks[i].pc = "reply"
    /\ \E ok \in BOOLEAN :
         IF ok
         THEN /\ message' = Append(message, Row(tasks[i].msg.from.user, "model",
                                                tasks[i].response))
              /\ tasks' = SeqRemove(tasks, i)
              /\ lastOp' = [op |-> "message", result |-> "replied", msg |-> tasks[i].msg]
              /\ UNCHANGED customer
         ELSE MsgFailed(i)
    /\ M_frame

(* A connected session: its client is ready and registered. *)
InitMsgW ==
    /\ manager = "wwebjs"
    /\ \E linkedAgentId \in {"agent1", "null"} :
         clis = <<[sessionId |-> "s1", tenantId |-> TenantOf("s1"),
                   sessionName |-> NameOf("s1"), linkedAgentId |-> linkedAgentId,
                   state |-> "ready"]>>
    /\ clients = [sid \in {"s1"} |-> 1]
    /\ sessions = [sid \in {"s1"} |->
                     SessionInfo("CONNECTED", "null", "5511999990000", NameOf("s1"))]
    /\ whatsAppSession = [sid \in SessionIds |-> "CONNECTED"]
    /\ agent \in {{}, {"agent2"}, {"agent2", "agent3"}}
    /\ (clis[1].linkedAgentId # "null" => agent = {"agent2"})
    /\ message \in StoredThreads
    /\ stored = Len(message)
    /\ customer = IF message = <<>> THEN {} ELSE {Person.user}
    /\ tasks = <<>> /\ deleting = {}
    /\ sockets = EmptyMap /\ socks = <<>> /\ qrTimeouts = {}
    /\ appointment = <<>> /\ authKey = EmptyMap /\ restore = [pc |-> "idle"]
    /\ lastOp = [op |-> "init"]

NextMsgW ==
    \/ \E c \in 1..Len(clis), msg \in W_InboundMessages : W_onMessage(c, msg)
    \/ \E i \in 1..Len(tasks) : W_msgAfterFindUnique(i)
    \/ \E i \in 1..Len(tasks) : W_msgAfterCustomerCreate(i)
    \/ \E i \in 1..Len(tasks) : W_msgAfterCreate(i)
    \/ \E i \in 1..Len(tasks) : W_msgAfterAgent(i)
    \/ \E i \in 1..Len(tasks) : W_msgAfterFindMany(i)
    \/ \E i \in 1..Len(tasks) : W_msgAfterChat(i)
    \/ \E i \in 1..Len(tasks) : W_msgAfterSend(i)
    \/ \E i \in 1..Len(tasks) : W_msgAfterReply(i)

SpecMsgW == InitMsgW /\ [][NextMsgW]_vars

-----------------------------------------------------------------------------
(* Inbound messages: either implementation *)

InitMsg == InitMsgB \/ InitMsgW

NextMsg ==
    \/ manager = "baileys" /\ NextMsgB
    \/ manager = "wwebjs" /\ NextMsgW

SpecMsg == InitMsg /\ [][NextMsg]_vars

-----------------------------------------------------------------------------
(* Tool calls of the completion: AIService.handleToolCall and the            *)
(* AppointmentService. Times are seconds; the clock of the run is Now.       *)

T_frame == UNCHANGED <<sessions, whatsAppSession, sockets, socks, clients, clis, qrTimeouts,
                       deleting, customer, message, agent, stored, manager, authKey,
                       restore>>

(* new AppError(message, statusCode, code): the factories of Errors. *)
AppError(msg, statusCode, code) ==
    [name |-> "AppError", message |-> msg, statusCode |-> statusCode, code |-> code]

(* Nothing thrown. *)
NoError == [name |-> "none", message |-> "", statusCode |-> 0, code |-> "none"]

(* A rejection of the database client inside the transaction. *)
PrismaError == [name |-> "PrismaClientKnownRequestError",
                message |-> "Can't reach database server", statusCode |-> 0, code |-> "P1001"]

(* String.prototype.includes *)
StrIncludes(s, n) == \E i \in 1..(Len(s) - Len(n) + 1) : SubSeq(s, i, i + Len(n) - 1) = n

(* normalizeString: str.normalize("NFD"), the combining marks removed,        *)
(* toLowerCase(), trim(); over the letters the names below are written with.  *)
normalizeString(str) ==
    LET lowerCase(c) == CASE c = "B" -> "b" [] c = "C" -> "c" [] c = "M" -> "m" [] OTHER -> c
        lower[k \in 0..Len(str)] ==
            IF k = 0 THEN "" ELSE lower[k - 1] \o lowerCase(SubSeq(str, k, k))
        inked == {k \in 1..Len(str) : SubSeq(str, k, k) # " "}
    IN IF inked = {} THEN ""
       ELSE SubSeq(lower[Len(str)], CHOOSE a \in inked : \A k \in inked : a <= k,
                                     CHOOSE b \in inked : \A k \in inked : k <= b)

(* str.split(' '), as the set of its pieces *)
StrWords(s) ==
    LET cuts == {0, Len(s) + 1} \cup {i \in 1..Len(s) : SubSeq(s, i, i) = " "}
    IN {SubSeq(s, a + 1, b - 1) : <<a, b>> \in
           {c \in cuts \X cuts : c[1] < c[2] /\ \A m \in cuts : ~(c[1] < m /\ m < c[2])}}

(* prisma.service.findMany of chat: the tenant's active services. *)
Services == <<[id |-> "svc1", name |-> "Corte de Cabelo", duration |-> 30]>>

DefaultDuration == 60

Now == 1800

startOfMinute(t) == t - (t % 60)

(* The two services.find of the createAppointment case: 0 when none matches. *)
AI_serviceMatch(serviceName) ==
    LET inputName == normalizeString(serviceName)
        first == {j \in 1..Len(Services) :
                     \/ StrIncludes(normalizeString(Services[j].name), inputName)
                     \/ StrIncludes(inputName, normalizeString(Services[j].name))}
        second == {j \in 1..Len(Services) :
                     \E w \in StrWords(inputName) :
                        Len(w) > 3 /\ w \in StrWords(normalizeString(Services[j].name))}
        Min(S) == CHOOSE j \in S : \A k \in S : j <= k
    IN IF first # {} THEN Min(first) ELSE IF second # {} THEN Min(second) ELSE 0

(* The catch of handleToolCall: the text handed back to the completion. *)
AI_toolError(error) ==
    LET m0 == "Ocorreu um problema técnico."
        m1 == IF StrIncludes(error.message, "CONFLICT")
              THEN "Esse horário já está ocupado. Por favor, escolha outro." ELSE m0
        m2 == IF StrIncludes(error.message, "VALIDATION")
              THEN "Data inválida (passado ou formato incorreto)." ELSE m1
        m3 == IF StrIncludes(error.message, "NOT_FOUND")
              THEN "Agendamento não encontrado ou não pertence a você." ELSE m2
    IN [status |-> "error", message |-> m3]

(* handleToolCall returns to chat, by its return or through its catch. *)
AI_toolReturns(q, name, error, toolResult) ==
    /\ tasks' = q
    /\ lastOp' = [op |-> "tool", name |-> name, error |-> error, toolResult |-> toolResult]

(* The where of the conflict findFirst of createAppointment. *)
A_conflict(tenantId, startTime, endTime) ==
    {j \in 1..Len(appointment) :
        /\ appointment[j].tenantId = tenantId
        /\ appointment[j].status = "SCHEDULED"
        /\ appointment[j].startTime < endTime
        /\ appointment[j].endTime > startTime}


(* AppointmentService.createAppointment up to its first await: a start in the *)
(* past throws; else the transaction begins. The services do not change in a  *)
(* run, so tx.service.findFirst is taken with the begin of the transaction,   *)
(* and the conflict findFirst is awaited.                                     *)
A_createAppointment(q, data) ==
    LET startTime == startOfMinute(data.startTime)
        match == {j \in 1..Len(Services) : Services[j].id = data.serviceId}
        service == IF match = {} THEN 0 ELSE CHOOSE j \in match : TRUE
        duration == IF service = 0 THEN DefaultDuration ELSE Services[service].duration
    IN IF startTime < Now
       THEN LET error == AppError("A data do agendamento não pode ser no passado.",
                                  400, "BAD_REQUEST")
            IN AI_toolReturns(q, "createAppointment", error, AI_toolError(error))
       ELSE /\ Len(q) < MaxTasks
            /\ Len(appointment) + Cardinality(TasksOf("A_create")) < MaxAppointments
            /\ tasks' = Append(q,
                  [type |-> "A_create", pc |-> "conflict", tenantId |-> data.tenantId,
                   customerId |-> data.customerId,
                   serviceId |-> IF service = 0 THEN "null" ELSE Services[service].id,
                   title |-> IF service = 0 THEN data.title ELSE Services[service].name,
                   duration |-> duration,
                   startTime |-> startTime, endTime |-> startTime + 60 * duration])
            /\ lastOp' = [op |-> "tool", name |-> "createAppointment", error |-> NoError,
                          toolResult |-> [status |-> "pending", message |-> ""]]

(* The where without the customer. *)
A_whereCondition_unscoped(tenantId, customerId, appointmentId) ==
    {j \in 1..Len(appointment) : j = appointmentId /\ appointment[j].tenantId = tenantId}

(* The scoped where of cancelAppointment and rescheduleAppointment: the id,   *)
(* the tenant and, when customerId is truthy, the customer. The id of a row   *)
(* is its position in the table.                                              *)
A_whereCondition(tenantId, customerId, appointmentId) ==
    {j \in 1..Len(appointment) :
        /\ j = appointmentId
        /\ appointment[j].tenantId = tenantId
        /\ customerId # "" => appointment[j].customerId = customerId}

(* A cancel or reschedule call returns to chat; the arguments are kept. *)
AI_toolReturnsFor(q, name, args, error, toolResult) ==
    /\ tasks' = q
    /\ lastOp' = [op |-> "tool", name |-> name, error |-> error, toolResult |-> toolResult,
                  args |-> args]

(* AppointmentService.cancelAppointment up to its first await, the findFirst. *)
A_cancelAppointment(q, tenantId, customerId, appointmentId) ==
    /\ Len(q) < MaxTasks
    /\ tasks' = Append(q,
          [type |-> "A_cancel", pc |-> "find", tenantId |-> tenantId,
           customerId |-> customerId, appointmentId |-> appointmentId])
    /\ lastOp' = [op |-> "tool", name |-> "cancelAppointment", error |-> NoError,
                  toolResult |-> [status |-> "pending", message |-> ""]]

(* AppointmentService.rescheduleAppointment up to its first await: a start in *)
(* the past throws; else the transaction begins with the scoped findFirst.    *)
A_rescheduleAppointment(q, tenantId, appointmentId, newStartTime, customerId) ==
    LET startTime == startOfMinute(newStartTime) IN
    IF startTime < Now
    THEN LET error == AppError("Você não pode reagendar para uma data no passado.",
                               400, "BAD_REQUEST")
         IN AI_toolReturnsFor(q, "rescheduleAppointment",
                              [appointmentId |-> appointmentId, newDateTime |-> newStartTime],
                              error, AI_toolError(error))
    ELSE /\ Len(q) < MaxTasks
         /\ tasks' = Append(q,
               [type |-> "A_reschedule", pc |-> "find", tenantId |-> tenantId,
                customerId |-> customerId, appointmentId |-> appointmentId,
                newDateTime |-> newStartTime,
                startTime |-> startTime, endTime |-> startTime])
         /\ lastOp' = [op |-> "tool", name |-> "rescheduleAppointment", error |-> NoError,
                       toolResult |-> [status |-> "pending", message |-> ""]]

(* handleToolCall(name, args, context, services) up to its first await; q is *)
(* the pending work the call is added to.                                   *)
AI_handleToolCall(q, name, args, context) ==
    /\ IF name = "createAppointment"
       THEN LET serviceMatch == AI_serviceMatch(args.serviceName) IN
            A_createAppointment(q,
               [tenantId |-> context.tenantId, customerId |-> context.customerId,
                serviceId |-> IF serviceMatch = 0 THEN "undefined"
                              ELSE Services[serviceMatch].id,
                title |-> IF serviceMatch = 0 THEN args.serviceName
                          ELSE Services[serviceMatch].name,
                startTime |-> args.dateTime])
       ELSE IF name = "cancelAppointment"
       THEN A_cancelAppointment(q, context.tenantId, context.customerId, args.appointmentId)
       ELSE IF name = "rescheduleAppointment"
       THEN A_rescheduleAppointment(q, context.tenantId, args.appointmentId, args.newDateTime,
                                    context.customerId)
       ELSE AI_toolReturns(q, name, NoError,
               [status |-> "error", message |-> "Ferramenta " \o name \o " não implementada."])
    /\ UNCHANGED appointment
    /\ T_frame

(* The conflict findFirst resolves: an overlapping SCHEDULED row of the tenant *)
(* makes the transaction throw Conflict; else tx.customer.update and           *)
(* tx.appointment.create are awaited.                                          *)
A_createAfterConflict(i) ==
    /\ tasks[i].type = "A_create" /\ tasks[i].pc = "conflict"
    /\ \E ok \in BOOLEAN :
         IF ~ok
         THEN AI_toolReturns(SeqRemove(tasks, i), "createAppointment", PrismaError,
                             AI_toolError(PrismaError))
         ELSE IF A_conflict(tasks[i].tenantId, tasks[i].startTime, tasks[i].endTime) # {}
         THEN LET error == AppError("Horário indisponível.", 409, "CONFLICT")
              IN AI_toolReturns(SeqRemove(tasks, i), "createAppointment", error,
                                AI_toolError(error))
         ELSE /\ tasks' = [tasks EXCEPT ![i].pc = "create"]
              /\ lastOp' = [op |-> "tool", name |-> "createAppointment", error |-> NoError,
                            toolResult |-> [status |-> "pending", message |-> ""]]
    /\ UNCHANGED appointment
    /\ T_frame

(* tx.customer.update and tx.appointment.create resolve and the transaction *)
(* commits, or it is rolled back.                                           *)
A_createAfterCreate(i) ==
    /\ tasks[i].type = "A_create" /\ tasks[i].pc = "create"
    /\ \E ok \in BOOLEAN :
         IF ok
         THEN /\ appointment' = Append(appointment,
                    [tenantId |-> tasks[i].tenantId, customerId |-> tasks[i].customerId,
                     serviceId |-> tasks[i].serviceId, title |-> tasks[i].title,
                     startTime |-> tasks[i].startTime, endTime |-> tasks[i].endTime,
                     status |-> "SCHEDULED"])
              /\ AI_toolReturns(SeqRemove(tasks, i), "createAppointment", NoError,
                    [status |-> "success", message |-> "Agendado: " \o tasks[i].title,
                     startTime |-> tasks[i].startTime])
         ELSE /\ UNCHANGED appointment
              /\ AI_toolReturns(SeqRemove(tasks, i), "createAppointment", PrismaError,
                                AI_toolError(PrismaError))
    /\ T_frame

(* The findFirst of cancelAppointment resolves: no row throws NotFound, a     *)
(* CANCELED row throws BadRequest; else prisma.appointment.update is awaited. *)
A_cancelAfterFind(i) ==
    /\ tasks[i].type = "A_cancel" /\ tasks[i].pc = "find"
    /\ LET args == [appointmentId |-> tasks[i].appointmentId]
           found == A_whereCondition(tasks[i].tenantId, tasks[i].customerId,
                                     tasks[i].appointmentId)
           Throw(error) == AI_toolReturnsFor(SeqRemove(tasks, i), "cancelAppointment", args,
                                             error, AI_toolError(error))
       IN \E ok \in BOOLEAN :
            IF ~ok THEN Throw(PrismaError)
            ELSE IF found = {}
            THEN Throw(AppError("Agendamento não encontrado.", 404, "RESOURCE_NOT_FOUND"))
            ELSE IF appointment[tasks[i].appointmentId].status = "CANCELED"
            THEN Throw(AppError("Este agendamento já foi cancelado.", 400, "BAD_REQUEST"))
            ELSE /\ tasks' = [tasks EXCEPT ![i].pc = "update"]
                 /\ lastOp' = [op |-> "tool", name |-> "cancelAppointment", error |-> NoError,
                               toolResult |-> [status |-> "pending", message |-> ""]]
    /\ UNCHANGED appointment
    /\ T_frame

(* prisma.appointment.update({ where: { id }, data: { status: 'CANCELED' } }) *)
(* resolves or rejects.                                                       *)
A_cancelAfterUpdate(i) ==
    /\ tasks[i].type = "A_cancel" /\ tasks[i].pc = "update"
    /\ LET args == [appointmentId |-> tasks[i].appointmentId] IN
       \E ok \in BOOLEAN :
         IF ok
         THEN /\ appointment' = [appointment EXCEPT ![tasks[i].appointmentId].status = "CANCELED"]
              /\ AI_toolReturnsFor(SeqRemove(tasks, i), "cancelAppointment", args, NoError,
                    [status |-> "success", message |-> "Agendamento cancelado com sucesso."])
         ELSE /\ UNCHANGED appointment
              /\ AI_toolReturnsFor(SeqRemove(tasks, i), "cancelAppointment", args, PrismaError,
                                   AI_toolError(PrismaError))
    /\ T_frame

(* The scoped findFirst of the reschedule transaction resolves: no row throws *)
(* NotFound; else the end is computed from the duration of the row's service  *)
(* (60 minutes without one) and the conflict findFirst is awaited.            *)
A_rescheduleAfterFind(i) ==
    /\ tasks[i].type = "A_reschedule" /\ tasks[i].pc = "find"
    /\ LET args == [appointmentId |-> tasks[i].appointmentId,
                    newDateTime |-> tasks[i].newDateTime]
           found == A_whereCondition(tasks[i].tenantId, tasks[i].customerId,
                                     tasks[i].appointmentId)
           Throw(error) == AI_toolReturnsFor(SeqRemove(tasks, i), "rescheduleAppointment",
                                             args, error, AI_toolError(error))
       IN \E ok \in BOOLEAN :
            IF ~ok THEN Throw(PrismaError)
            ELSE IF found = {}
            THEN Throw(AppError("Agendamento não encontrado.", 404, "RESOURCE_NOT_FOUND"))
            ELSE LET original == appointment[tasks[i].appointmentId]
                     match == {j \in 1..Len(Services) : Services[j].id = original.serviceId}
                     duration == IF match = {} THEN DefaultDuration
                                 ELSE Services[CHOOSE j \in match : TRUE].duration
                 IN /\ tasks' = [tasks EXCEPT ![i].pc = "conflict",
                                              ![i].endTime = tasks[i].startTime + 60 * duration]
                    /\ lastOp' = [op |-> "tool", name |-> "rescheduleAppointment",
                                  error |-> NoError,
                                  toolResult |-> [status |-> "pending", message |-> ""]]
    /\ UNCHANGED appointment
    /\ T_frame

(* The conflict findFirst of the reschedule transaction resolves: another     *)
(* SCHEDULED row of the tenant that overlaps throws Conflict; else the update *)
(* is awaited.                                                                *)
A_rescheduleAfterConflict(i) ==
    /\ tasks[i].type = "A_reschedule" /\ tasks[i].pc = "conflict"
    /\ LET args == [appointmentId |-> tasks[i].appointmentId,
                    newDateTime |-> tasks[i].newDateTime]
           conflict == A_conflict(tasks[i].tenantId, tasks[i].startTime, tasks[i].endTime)
                          \ {tasks[i].appointmentId}
           Throw(error) == AI_toolReturnsFor(SeqRemove(tasks, i), "rescheduleAppointment",
                                             args, error, AI_toolError(error))
       IN \E ok \in BOOLEAN :
            IF ~ok THEN Throw(PrismaError)
            ELSE IF conflict # {}
            THEN Throw(AppError("Este horário já está ocupado por outro cliente.",
                                409, "CONFLICT"))
            ELSE /\ tasks' = [tasks EXCEPT ![i].pc = "update"]
                 /\ lastOp' = [op |-> "tool", name |-> "rescheduleAppointment",
                               error |-> NoError,
                               toolResult |-> [status |-> "pending", message |-> ""]]
    /\ UNCHANGED appointment
    /\ T_frame

(* tx.appointment.update({ where: { id }, data: { startTime, endTime, ... } }) *)
(* resolves and the transaction commits, or it is rolled back. The rows of the *)
(* model carry no description.                                                 *)
A_rescheduleAfterUpdate(i) ==
    /\ tasks[i].type = "A_reschedule" /\ tasks[i].pc = "update"
    /\ LET args == [appointmentId |-> tasks[i].appointmentId,
                    newDateTime |-> tasks[i].newDateTime] IN
       \E ok \in BOOLEAN :
         IF ok
         THEN /\ appointment' = [appointment EXCEPT
                    ![tasks[i].appointmentId].startTime = tasks[i].startTime,
                    ![tasks[i].appointmentId].endTime = tasks[i].endTime]
              /\ AI_toolReturnsFor(SeqRemove(tasks, i), "rescheduleAppointment", args, NoError,
                    [status |-> "success", message |-> "Reagendado para ",
                     startTime |-> tasks[i].startTime])
         ELSE /\ UNCHANGED appointment
              /\ AI_toolReturnsFor(SeqRemove(tasks, i), "rescheduleAppointment", args,
                                   PrismaError, AI_toolError(PrismaError))
    /\ T_frame

(* A conversation of a known customer; earlier ones left no appointment, or *)
(* one of the tenant or of another tenant.                                  *)
InitTool ==
    /\ manager = "baileys"
    /\ sessions = EmptyMap /\ whatsAppSession = [sid \in SessionIds |-> "DISCONNECTED"]
    /\ sockets = EmptyMap /\ socks = <<>> /\ clients = EmptyMap /\ clis = <<>>
    /\ qrTimeouts = {} /\ tasks = <<>> /\ deleting = {}
    /\ customer = {Person.user} /\ message = <<>> /\ stored = 0 /\ agent = {"agent2"}
    /\ authKey = EmptyMap
    /\ restore = [pc |-> "idle"]
    /\ appointment \in {<<>>} \cup
          {<<[tenantId |-> t, customerId |-> "5511977776666", serviceId |-> "null",
              title |-> "Barba", startTime |-> 3600, endTime |-> 7200, status |-> st]>> :
             t \in {"t1", "t2"}, st \in {"SCHEDULED", "CANCELED"}}
    /\ lastOp = [op |-> "init"]

NextTool ==
    \/ \E name \in {"createAppointment", "sendEmail"},
          args \in [serviceName : {"Corte", "Manicure"}, dateTime : {0, 3600, 5430, 7200}] :
          AI_handleToolCall(tasks, name, args, [tenantId |-> "t1", customerId |-> Person.user])
    \/ \E i \in 1..Len(tasks) : A_createAfterConflict(i)
    \/ \E i \in 1..Len(tasks) : A_createAfterCreate(i)

SpecTool == InitTool /\ [][NextTool]_vars

(* A conversation of a customer who has an appointment, next to one of        *)
(* another customer of the tenant or of another tenant: the completion asks   *)
(* for cancels and reschedules.                                               *)
InitCancel ==
    /\ manager = "baileys"
    /\ sessions = EmptyMap /\ whatsAppSession = [sid \in SessionIds |-> "DISCONNECTED"]
    /\ sockets = EmptyMap /\ socks = <<>> /\ clients = EmptyMap /\ clis = <<>>
    /\ qrTimeouts = {} /\ tasks = <<>> /\ deleting = {}
    /\ customer = {Person.user} /\ message = <<>> /\ stored = 0 /\ agent = {"agent2"}
    /\ authKey = EmptyMap
    /\ restore = [pc |-> "idle"]
    /\ appointment \in
          {<<[tenantId |-> t, customerId |-> "5511977776666", serviceId |-> "null",
              title |-> "Barba", startTime |-> 3600, endTime |-> 7200, status |-> st]>>
             \o own :
             t \in {"t1", "t2"}, st \in {"SCHEDULED", "CANCELED"},
             own \in {<<>>,
                      <<[tenantId |-> "t1", customerId |-> Person.user, serviceId |-> "svc1",
                         title |-> "Corte de Cabelo", startTime |-> 10800,
                         endTime |-> 12600, status |-> "SCHEDULED"]>>}}
    /\ lastOp = [op |-> "init"]

NextCancel ==
    \/ \E name \in {"cancelAppointment", "rescheduleAppointment"},
          args \in [appointmentId : 1..MaxAppointments, newDateTime : {0, 3600, 14400}] :
          AI_handleToolCall(tasks, name, args, [tenantId |-> "t1", customerId |-> Person.user])
    \/ \E i \in 1..Len(tasks) : A_cancelAfterFind(i)
    \/ \E i \in 1..Len(tasks) : A_cancelAfterUpdate(i)
    \/ \E i \in 1..Len(tasks) : A_rescheduleAfterFind(i)
    \/ \E i \in 1..Len(tasks) : A_rescheduleAfterConflict(i)
    \/ \E i \in 1..Len(tasks) : A_rescheduleAfterUpdate(i)

SpecCancel == InitCancel /\ [][NextCancel]_vars

-----------------------------------------------------------------------------
(* AIService.chat: the agent is validated, the services are read, the user   *)
(* message is sent to the model and a requested tool is run once.            *)

(* response.functionCalls() of the model: none, one or two calls. *)
AI_Call(name, args) == [name |-> name, args |-> args]

AI_FunctionCalls ==
    LET create == AI_Call("createAppointment", [serviceName |-> "Corte", dateTime |-> 3600])
        cancel == AI_Call("cancelAppointment", [appointmentId |-> 1])
    IN {<<>>, <<create>>, <<cancel>>, <<create, cancel>>, <<cancel, create>>}

(* response.text() of the model *)
AI_Texts == {"", "Ola!"}

AI_ToolTasks == TasksOf("A_create") \cup TasksOf("A_cancel") \cup TasksOf("A_reschedule")

(* chat returns to its caller, or throws; sends counts the sendMessage calls *)
(* and tools the handleToolCall calls it made.                               *)
AI_chatReturns(q, t, response, error) ==
    /\ tasks' = q
    /\ lastOp' = [op |-> "chatReturn", agentId |-> t.agentId, response |-> response,
                  action |-> t.action, sends |-> t.sends, tools |-> t.tools,
                  requested |-> Len(t.calls), error |-> error]

(* chat(agentId, userMessage, context, history) up to prisma.agent.findUnique. *)
AI_chat(agentId, context) ==
    /\ Room
    /\ tasks' = Append(tasks, [type |-> "AI_chat", pc |-> "findUnique", agentId |-> agentId,
                               context |-> context, calls |-> <<>>, action |-> "none",
                               sends |-> 0, tools |-> 0])
    /\ lastOp' = [op |-> "chat", agentId |-> agentId]
    /\ UNCHANGED appointment
    /\ T_frame

(* findUnique resolves: a missing or inactive agent returns { response: null }; *)
(* else prisma.service.findMany is awaited. A rejection is thrown on.          *)
AI_chatAfterFindUnique(i) ==
    /\ tasks[i].type = "AI_chat" /\ tasks[i].pc = "findUnique"
    /\ \E ok \in BOOLEAN :
         IF ~ok THEN AI_chatReturns(SeqRemove(tasks, i), tasks[i], "threw", PrismaError)
         ELSE IF ~AI_agentValid(tasks[i].agentId)
         THEN AI_chatReturns(SeqRemove(tasks, i), tasks[i], "null", NoError)
         ELSE /\ tasks' = [tasks EXCEPT ![i].pc = "findMany"]
              /\ lastOp' = [op |-> "chat", agentId |-> tasks[i].agentId]
    /\ UNCHANGED appointment
    /\ T_frame

(* findMany resolves: the prompt is built, the session started and           *)
(* chatSession.sendMessage(userMessage) awaited.                             *)
AI_chatAfterFindMany(i) ==
    /\ tasks[i].type = "AI_chat" /\ tasks[i].pc = "findMany"
    /\ \E ok \in BOOLEAN :
         IF ~ok THEN AI_chatReturns(SeqRemove(tasks, i), tasks[i], "threw", PrismaError)
         ELSE /\ tasks' = [tasks EXCEPT ![i].pc = "sendMessage", ![i].sends = @ + 1]
              /\ lastOp' = [op |-> "sendMessage", agentId |-> tasks[i].agentId]
    /\ UNCHANGED appointment
    /\ T_frame

(* sendMessage resolves: with function calls the first one is handed to      *)
(* handleToolCall, which runs up to its first await; without, the text is     *)
(* returned. A rejection is rethrown as Errors.Internal.                      *)
AI_chatAfterSendMessage(i) ==
    /\ tasks[i].type = "AI_chat" /\ tasks[i].pc = "sendMessage"
    /\ \E ok \in BOOLEAN, functionCalls \in AI_FunctionCalls, text \in AI_Texts :
         IF ~ok
         THEN /\ AI_chatReturns(SeqRemove(tasks, i), tasks[i], "threw",
                                AppError("Erro no Serviço de IA: ", 500, "INTERNAL_SERVER_ERROR"))
              /\ UNCHANGED appointment
              /\ T_frame
         ELSE IF Len(functionCalls) > 0
         THEN LET call == functionCalls[1] IN
              AI_handleToolCall([tasks EXCEPT ![i].pc = "tool", ![i].calls = functionCalls,
                                              ![i].action = call.name, ![i].tools = @ + 1],
                                call.name, call.args, tasks[i].context)
         ELSE /\ AI_chatReturns(SeqRemove(tasks, i), tasks[i], text, NoError)
              /\ UNCHANGED appointment
              /\ T_frame

(* Faulty variant: every requested call is handled before the result is sent. *)
AI_chatAfterTool_all(i) ==
    /\ tasks[i].type = "AI_chat" /\ tasks[i].pc = "tool"
    /\ AI_ToolTasks = {}
    /\ IF tasks[i].tools < Len(tasks[i].calls)
       THEN LET call == tasks[i].calls[tasks[i].tools + 1] IN
            AI_handleToolCall([tasks EXCEPT ![i].tools = @ + 1],
                              call.name, call.args, tasks[i].context)
       ELSE /\ tasks' = [tasks EXCEPT ![i].pc = "sendResult", ![i].sends = @ + 1]
            /\ lastOp' = [op |-> "sendMessage", agentId |-> tasks[i].agentId]
            /\ UNCHANGED appointment
            /\ T_frame

(* handleToolCall has returned its result: chatSession.sendMessage with the   *)
(* functionResponse is awaited.                                               *)
AI_chatAfterTool(i) ==
    /\ tasks[i].type = "AI_chat" /\ tasks[i].pc = "tool"
    /\ AI_ToolTasks = {}
    /\ tasks' = [tasks EXCEPT ![i].pc = "sendResult", ![i].sends = @ + 1]
    /\ lastOp' = [op |-> "sendMessage", agentId |-> tasks[i].agentId]
    /\ UNCHANGED appointment
    /\ T_frame

(* The second sendMessage resolves: its text is returned with the action,    *)
(* whatever function calls the response carries.                             *)
AI_chatAfterSendResult(i) ==
    /\ tasks[i].type = "AI_chat" /\ tasks[i].pc = "sendResult"
    /\ \E ok \in BOOLEAN, functionCalls \in AI_FunctionCalls, text \in AI_Texts :
         IF ok THEN AI_chatReturns(SeqRemove(tasks, i), tasks[i], text, NoError)
         ELSE AI_chatReturns(SeqRemove(tasks, i), tasks[i], "threw",
                             AppError("Erro no Serviço de IA: ", 500, "INTERNAL_SERVER_ERROR"))
    /\ UNCHANGED appointment
    /\ T_frame

(* One conversation, its messages answered one after the other by the active *)
(* agent2 or routed to agent1, which is not active.                          *)
InitChat == InitTool

NextChat ==
    \/ /\ tasks = <<>>
       /\ \E agentId \in {"agent1", "agent2"} :
             AI_chat(agentId, [tenantId |-> "t1", customerId |-> Person.user])
    \/ \E i \in 1..Len(tasks) : AI_chatAfterFindUnique(i)
    \/ \E i \in 1..Len(tasks) : AI_chatAfterFindMany(i)
    \/ \E i \in 1..Len(tasks) : AI_chatAfterSendMessage(i)
    \/ \E i \in 1..Len(tasks) : AI_chatAfterTool(i)
    \/ \E i \in 1..Len(tasks) : AI_chatAfterSendResult(i)
    \/ \E i \in 1..Len(tasks) : A_createAfterConflict(i)
    \/ \E i \in 1..Len(tasks) : A_createAfterCreate(i)
    \/ \E i \in 1..Len(tasks) : A_cancelAfterFind(i)
    \/ \E i \in 1..Len(tasks) : A_cancelAfterUpdate(i)

SpecChat == InitChat /\ [][NextChat]_vars

-----------------------------------------------------------------------------
(* Process start (server.ts) and the calls other services make on the manager *)

BootIds == {"s1", "s2"}

(* The rows of prisma.whatsAppSession in the order the table returns them. *)
BootRows == <<"s1", "s2">>

(* What a step of restoreSessions leaves alone besides the manager's own state. *)
R_frame == UNCHANGED <<customer, message, agent, stored, manager, appointment, authKey>>

(* Faulty variant: the query without its where clause. *)
R_findConnected_all == SelectSeq(BootRows, LAMBDA sid : RowExists(sid))

(* prisma.whatsAppSession.findMany({ where: { status: 'CONNECTED' } }) *)
R_findConnected == SelectSeq(BootRows, LAMBDA sid : whatsAppSession[sid] = "CONNECTED")

(* The for loop of restoreSessions runs without suspending: while it runs no *)
(* other handler does.                                                        *)
R_InLoop == restore.pc = "loop"

(* The findMany awaited by restoreSessions resolves: the loop starts on the   *)
(* rows it returned; its rejection is caught and logged and starts nothing.   *)
R_restoreAfterFindMany ==
    /\ restore.pc = "findMany"
    /\ \E ok \in BOOLEAN :
         IF ok
         THEN /\ Len(tasks) + Len(R_findConnected) <= MaxTasks
              /\ Len(clis) + Len(R_findConnected) <= MaxSockets
              /\ restore' = [pc |-> "loop", rows |-> R_findConnected, calls |-> <<>>]
              /\ lastOp' = [op |-> "restore", result |-> "found"]
         ELSE /\ restore' = [pc |-> "idle"]
              /\ lastOp' = [op |-> "restore", result |-> "failed", calls |-> <<>>]
    /\ UNCHANGED <<sessions, whatsAppSession, sockets, socks, clients, clis, qrTimeouts,
                   tasks, deleting>>
    /\ R_frame

(* One turn of the loop: manager.startClient(session.tenantId, session.id,   *)
(* session.sessionName, session.agentId), not awaited.                        *)
R_restoreCall ==
    /\ R_InLoop
    /\ restore.rows # <<>>
    /\ LET sid == Head(restore.rows)
           call == [tenantId |-> TenantOf(sid), sessionId |-> sid,
                    sessionName |-> NameOf(sid), linkedAgentId |-> AgentOf(sid)] IN
       /\ restore' = [restore EXCEPT !.rows = Tail(@), !.calls = Append(@, call)]
       /\ IF manager = "baileys"
          THEN /\ B_startClient(tasks, call.tenantId, call.sessionId, call.sessionName,
                                call.linkedAgentId)
               /\ UNCHANGED <<sessions, clients, clis>>
          ELSE W_startClient(call.tenantId, call.sessionId, call.sessionName,
                             call.linkedAgentId)
    /\ UNCHANGED <<whatsAppSession, sockets, socks, qrTimeouts, deleting>>
    /\ R_frame

(* The loop has gone through the rows: restoreSessions returns. *)
R_restoreReturns ==
    /\ R_InLoop
    /\ restore.rows = <<>>
    /\ restore' = [pc |-> "idle"]
    /\ lastOp' = [op |-> "restore", result |-> "done", calls |-> restore.calls]
    /\ UNCHANGED <<sessions, whatsAppSession, sockets, socks, clients, clis, qrTimeouts,
                   tasks, deleting>>
    /\ R_frame

(* GET /whatsapp/sessions reads manager.getSessionStatus(s.id) of a row; the  *)
(* same call on an id the registry never had.                                 *)
RouteStatus(sid) ==
    /\ lastOp' = [op |-> "status", sid |-> sid,
                  result |-> IF manager = "baileys" THEN B_getSessionStatus(sid)
                             ELSE W_getSessionStatus(sid)]
    /\ UNCHANGED <<sessions, whatsAppSession, sockets, socks, clients, clis, qrTimeouts,
                   tasks, deleting, restore>>
    /\ R_frame

(* sendTextMessage(tenantId, phone, text), which ReminderService awaits: the *)
(* CONNECTED row of the tenant is looked up first.                          *)
S_sendTextMessage(tenantId, phone, text) ==
    /\ Room
    /\ TasksOf("send") = {}
    /\ tasks' = TaskInsert(tasks, [type |-> "send", pc |-> "lookup", tenantId |-> tenantId,
                                   phone |-> phone, text |-> text, sessionId |-> "null"])
    /\ lastOp' = [op |-> "sendText", tenantId |-> tenantId, sid |-> "null",
                  result |-> "pending"]
    /\ UNCHANGED <<sessions, whatsAppSession, sockets, socks, clients, clis, qrTimeouts,
                   deleting, restore>>
    /\ R_frame

(* Faulty variant: the handle is not looked up and the call reports success. *)
S_sendAfterLookup_noHandle(i) ==
    /\ tasks[i].type = "send" /\ tasks[i].pc = "lookup"
    /\ tasks' = SeqRemove(tasks, i)
    /\ lastOp' = [op |-> "sendText", tenantId |-> tasks[i].tenantId, sid |-> "null",
                  result |-> "true"]
    /\ UNCHANGED <<sessions, whatsAppSession, sockets, socks, clients, clis, qrTimeouts,
                   deleting, restore>>
    /\ R_frame

(* The lookup resolves. No CONNECTED row of the tenant, a failed lookup or no *)
(* handle registered for the row: false. Else the text goes to the handle.    *)
S_sendAfterLookup(i) ==
    /\ tasks[i].type = "send" /\ tasks[i].pc = "lookup"
    /\ LET t == tasks[i]
           rows == {sid \in DOMAIN whatsAppSession :
                      TenantOf(sid) = t.tenantId /\ whatsAppSession[sid] = "CONNECTED"}
           handles == IF manager = "baileys" THEN DOMAIN sockets ELSE DOMAIN clients
           returns(sid, result) ==
               /\ tasks' = SeqRemove(tasks, i)
               /\ lastOp' = [op |-> "sendText", tenantId |-> t.tenantId, sid |-> sid,
                             result |-> result] IN
       \E ok \in BOOLEAN :
          IF ~ok \/ rows = {} THEN returns("null", "false")
          ELSE \E sid \in rows :
                  IF sid \notin handles THEN returns(sid, "false")
                  ELSE /\ tasks' = [tasks EXCEPT ![i] = [t EXCEPT !.pc = "send",
                                                                  !.sessionId = sid]]
                       /\ lastOp' = [op |-> "sendText", tenantId |-> t.tenantId,
                                     sid |-> sid, result |-> "handed"]
    /\ UNCHANGED <<sessions, whatsAppSession, sockets, socks, clients, clis, qrTimeouts,
                   deleting, restore>>
    /\ R_frame

(* The handle has taken the text: true. What a handle that rejects the text *)
(* leads to is not said: false or the rejection itself.                     *)
S_sendAfterSend(i) ==
    /\ tasks[i].type = "send" /\ tasks[i].pc = "send"
    /\ tasks' = SeqRemove(tasks, i)
    /\ \E result \in {"true", "false", "threw"} :
          lastOp' = [op |-> "sendText", tenantId |-> tasks[i].tenantId,
                     sid |-> tasks[i].sessionId, result |-> result]
    /\ UNCHANGED <<sessions, whatsAppSession, sockets, socks, clients, clis, qrTimeouts,
                   deleting, restore>>
    /\ R_frame

InitBoot ==
    /\ manager \in {"baileys", "wwebjs"}
    /\ sessions = EmptyMap
    /\ whatsAppSession \in [BootIds -> {"CONNECTED", "QRCODE", "DISCONNECTED"}]
    /\ tasks = <<>>
    /\ deleting = {}
    /\ lastOp = [op |-> "init"]
    /\ sockets = EmptyMap /\ socks = <<>> /\ clients = EmptyMap /\ clis = <<>>
    /\ qrTimeouts = {}
    /\ customer = {} /\ message = <<>> /\ agent = {"agent2"} /\ stored = 0
    /\ appointment = <<>> /\ authKey = EmptyMap
    /\ restore = [pc |-> "findMany"]

(* The handlers that bring a started session up, which the server runs next *)
(* to restoreSessions once it listens.                                       *)
BootB ==
    \/ \E sid \in SessionIds : B_RouteStart(sid)
    \/ \E i \in 1..Len(tasks) : B_startAfterFindUnique(i)
    \/ \E i \in 1..Len(tasks) : B_startAfterAuthState(i)
    \/ \E k \in 1..Len(socks), user \in Users : B_onOpen(k, user)
    \/ \E i \in 1..Len(tasks) : B_persistResolves(i)

BootW ==
    \/ \E sid \in SessionIds : W_RouteStart(sid)
    \/ \E i \in 1..Len(tasks) : W_startAfterInitialize(i)
    \/ \E c \in 1..Len(clis), user \in Users : W_onReady(c, user)
    \/ \E i \in 1..Len(tasks) : W_readyAfterUpdate(i)

NextBoot ==
    \/ R_restoreAfterFindMany
    \/ R_restoreCall
    \/ R_restoreReturns
    \/ ~R_InLoop /\ manager = "baileys" /\ BootB
    \/ ~R_InLoop /\ manager = "wwebjs" /\ BootW
    \/ ~R_InLoop /\ \E sid \in BootIds \cup {"s9"} : RouteStatus(sid)
    \/ ~R_InLoop /\ \E tenantId \in {"t1", "t2"} :
                       S_sendTextMessage(tenantId, "5511977776666", "Lembrete")
    \/ ~R_InLoop /\ \E i \in 1..Len(tasks) : S_sendAfterLookup(i)
    \/ ~R_InLoop /\ \E i \in 1..Len(tasks) : S_sendAfterSend(i)

SpecBoot == InitBoot /\ [][NextBoot]_vars

-----------------------------------------------------------------------------
(* The credential store of a session: keys.set of usePrismaAuthState *)

K_frame == UNCHANGED <<sessions, whatsAppSession, sockets, socks, clients, clis, qrTimeouts,
                       deleting, customer, message, agent, stored, manager, appointment,
                       restore>>

(* The batches Baileys hands to set, as the entries (category, id, value) in *)
(* the order the two for-in loops visit them; value "null" asks for removal. *)
KeyBatches ==
    LET e(category, id, value) == [category |-> category, id |-> id, value |-> value]
    IN {<<e("pre-key", "1", "v1")>>,
        <<e("session", "1", "v2")>>,
        <<e("pre-key", "1", "null")>>,
        <<e("session", "2", "null"), e("pre-key", "1", "v1")>>,
        <<e("pre-key", "1", "v1"), e("session", "2", "null")>>,
        <<e("pre-key", "1", "v1"), e("session", "2", "v1")>>,
        <<e("pre-key", "1", "null"), e("session", "2", "null")>>,
        <<e("pre-key", "1", "v1"), e("session", "1", "v2")>>}

(* The operation pushed for one entry: upsert for a value, deleteMany else. *)
K_op(e) ==
    IF e.value # "null"
    THEN [kind |-> "upsert", keyId |-> e.id, type |-> e.category, value |-> e.value]
    ELSE [kind |-> "deleteMany", keyId |-> e.id, type |-> e.category, value |-> "null"]

(* Faulty variant: removal by prisma.whatsAppAuthKey.delete, which rejects *)
(* with P2025 when no row matches.                                          *)
K_applyOp_delete(r, op) ==
    IF r.error # "none" THEN r
    ELSE IF op.kind = "upsert"
    THEN [r EXCEPT !.store =
            IF op.keyId \in DOMAIN @ THEN [@ EXCEPT ![op.keyId].value = op.value]
            ELSE MapSet(@, op.keyId, [type |-> op.type, value |-> op.value])]
    ELSE IF op.keyId \in DOMAIN r.store
    THEN [r EXCEPT !.store = MapDelete(@, op.keyId)]
    ELSE [r EXCEPT !.error = "P2025"]

(* One operation inside the transaction: upsert creates the row with the    *)
(* category as type or updates its value only; deleteMany removes the rows  *)
(* that match, none being no error.                                         *)
K_applyOp(r, op) ==
    IF r.error # "none" THEN r
    ELSE IF op.kind = "upsert"
    THEN [r EXCEPT !.store =
            IF op.keyId \in DOMAIN @ THEN [@ EXCEPT ![op.keyId].value = op.value]
            ELSE MapSet(@, op.keyId, [type |-> op.type, value |-> op.value])]
    ELSE [r EXCEPT !.store = MapDelete(@, op.keyId)]

(* prisma.$transaction(tasks): the operations in order on the store; a       *)
(* rejected operation, or a database failure, rolls all of them back.        *)
K_transaction(ops, store, dbOk) ==
    LET run[n \in 0..Len(ops)] ==
            IF n = 0 THEN [store |-> store, error |-> "none"]
            ELSE K_applyOp(run[n - 1], ops[n])
        r == run[Len(ops)]
    IN IF ~dbOk THEN [store |-> store, error |-> "P1001"]
       ELSE IF r.error # "none" THEN [store |-> store, error |-> r.error]
       ELSE r

(* set(data) up to `await prisma.$transaction(tasks)`. *)
K_set(data) ==
    /\ Room
    /\ tasks' = TaskInsert(tasks, [type |-> "K_set",
                                   ops |-> [n \in 1..Len(data) |-> K_op(data[n])]])
    /\ lastOp' = [op |-> "set", result |-> "suspended"]
    /\ UNCHANGED authKey
    /\ K_frame

(* The transaction resolves or rejects; the catch swallows the rejection   *)
(* (logged unless its code is P2025) and set returns.                       *)
K_setAfterTransaction(i) ==
    /\ tasks[i].type = "K_set"
    /\ \E dbOk \in BOOLEAN :
         LET r == K_transaction(tasks[i].ops, authKey, dbOk) IN
         /\ authKey' = r.store
         /\ lastOp' = [op |-> "set", result |-> "returned", ops |-> tasks[i].ops,
                       error |-> r.error, before |-> authKey]
    /\ tasks' = SeqRemove(tasks, i)
    /\ K_frame

InitKeys == InitB

NextKeys ==
    \/ \E data \in KeyBatches : K_set(data)
    \/ \E i \in 1..Len(tasks) : K_setAfterTransaction(i)

SpecKeys == InitKeys /\ [][NextKeys]_vars

-----------------------------------------------------------------------------
(* Claims on the session lifecycle *)

(* C1: idempotent start. For every session id and every interleaving of      *)
(* start calls, at most one live connection handle exists for that id.       *)
C1_AtMostOneLiveHandle ==
    \A sid \in SessionIds :
        Cardinality(B_LiveSockets(sid)) + Cardinality(W_LiveClients(sid)) <= 1

(* C2: clean stop suppresses reconnect. The close event of a socket that     *)
(* stopClient has ended schedules no retry of start, whatever status code or *)
(* message it reports (no later start having made a new socket for the       *)
(* session in between).                                                      *)
C2_NoNewerSocket(k) ==
    \A j \in (k + 1)..Len(socks) : socks[j].sessionId # socks[k].sessionId

C3_RetryAdded(k) ==
    tasks' = TaskInsert(tasks, [type |-> "retry", tenantId |-> socks[k].tenantId,
                                sessionId |-> socks[k].sessionId,
                                sessionName |-> socks[k].sessionName,
                                linkedAgentId |-> socks[k].linkedAgentId])

C3_NoRetryAdded == Cardinality(TasksOf("retry"))' = Cardinality(TasksOf("retry"))

C3_Original ==
    [][lastOp'.op = "close" =>
       \A k \in 1..Len(socks) :
          (/\ socks[k].state # "closed" /\ socks'[k].state = "closed"
           /\ ~B_RemovedByStop(socks[k].sessionId)) =>
             \A r \in CloseReasons :
                B_onClose(k, r.statusCode, r.errorMessage)
                => IF r.statusCode = DisconnectReason_loggedOut
                   THEN C3_NoRetryAdded
                   ELSE C3_RetryAdded(k)]_vars

(* C3 amended: a logged-out code, and a close the handler takes for a QR     *)
(* timeout (status 408 or 428, or the message "QR refs attempts ended" or    *)
(* "Connection Terminated by Server"), never reschedules start; every other  *)
(* close of a registered handle reschedules exactly one retry with the same  *)
(* arguments.                                                                *)
C3_Terminal(r) ==
    \/ r.statusCode = 401
    \/ r.statusCode \in {408, 428}
    \/ r.errorMessage \in {"QR refs attempts ended", "Connection Terminated by Server"}

C3_ReconnectVsTerminal ==
    [][lastOp'.op = "close" =>
       \A k \in 1..Len(socks) :
          (/\ socks[k].state # "closed" /\ socks'[k].state = "closed"
           /\ ~B_RemovedByStop(socks[k].sessionId)) =>
             \A r \in CloseReasons :
                B_onClose(k, r.statusCode, r.errorMessage)
                => IF C3_Terminal(r)
                   THEN C3_NoRetryAdded
                   ELSE C3_RetryAdded(k)]_vars

C3_Witness ==
    /\ lastOp.op = "close" /\ lastOp.result = "reconnect"
    /\ \E i \in TasksOf("retry") :
          /\ tasks[i].sessionId = lastOp.sid
          /\ tasks[i].sessionName = NameOf(lastOp.sid)
          /\ tasks[i].linkedAgentId = AgentOf(lastOp.sid)

(* C4: QR timeout reclamation. For a session started once, when the stop the *)
(* QR timer invoked has returned, the registry status is DISCONNECTED, no    *)
(* handle is registered and no QR timer is armed (so that the timer invokes  *)
(* stop once).                                                               *)
C4_QrTimeoutReclaims ==
    (/\ lastOp.op = "stop" /\ lastOp.result = "returned" /\ lastOp.caller = "timer"
     /\ Len(clis) = 1)
    => /\ W_getSessionStatus(lastOp.sid).status = "DISCONNECTED"
       /\ lastOp.sid \notin DOMAIN clients
       /\ lastOp.sid \notin qrTimeouts

(* C5: stop(sessionId) always leaves the registry status of the session at   *)
(* DISCONNECTED with QR image and phone number null when it returns, whether *)
(* or not a live handle existed.                                             *)
C5_StopLeavesDisconnected ==
    (lastOp.op = "stop" /\ lastOp.result \in {"stopped", "noop", "returned"}) =>
        /\ B_getSessionStatus(lastOp.sid).status = "DISCONNECTED"
        /\ B_getSessionStatus(lastOp.sid).qrCode = "null"
        /\ B_getSessionStatus(lastOp.sid).phoneNumber = "null"

(* C6: in stop, the handle is removed from the live map before the transport *)
(* disconnect is issued: a connection that stop is disconnecting, or has     *)
(* disconnected, is never the registered handle of its session.              *)
C6_RemovedBeforeDisconnect ==
    /\ \A sid \in DOMAIN sockets : socks[sockets[sid]].state # "ended"
    /\ \A sid \in DOMAIN clients : clis[clients[sid]].state # "destroying"

(* C7: start on a session id that has a registered handle is a silent no-op: *)
(* the handle, the registry entry, the QR timer, the persisted status and    *)
(* the connections made are unchanged, and nothing is left pending (a retry  *)
(* timer that made the call is consumed).                                    *)
C7_StartWithHandleIsNoOp ==
    [][lastOp'.op = "start" =>
       /\ \A sid \in SessionIds :
            (\/ sid \in DOMAIN sockets /\ B_RouteStart(sid)
             \/ sid \in DOMAIN clients /\ W_RouteStart(sid))
            => UNCHANGED <<sessions, whatsAppSession, sockets, socks, clients, clis,
                           qrTimeouts, tasks>>
       /\ \A i \in 1..Len(tasks) :
            (/\ tasks[i].type = "retry" /\ tasks[i].sessionId \in DOMAIN sockets
             /\ B_retryTimerFires(i))
            => /\ UNCHANGED <<sessions, whatsAppSession, sockets, socks>>
               /\ tasks' = SeqRemove(tasks, i)]_vars

C7_Witness ==
    /\ lastOp.op = "start" /\ lastOp.result = "noop"
    /\ lastOp.sid \in DOMAIN clients
    /\ lastOp.sid \in qrTimeouts
    /\ W_getSessionStatus(lastOp.sid).status = "QRCODE"

(* C8: when start fails after setting STARTING, it does not throw and ends   *)
(* with status DISCONNECTED, no registered handle and no armed QR timer.     *)
C8_InitFailureEndsDisconnected ==
    (lastOp.op = "start" /\ lastOp.result \in {"threw", "initFailed"}) =>
        /\ lastOp.result # "threw"
        /\ B_getSessionStatus(lastOp.sid).status = "DISCONNECTED"
        /\ lastOp.sid \notin DOMAIN sockets
        /\ lastOp.sid \notin DOMAIN clients
        /\ lastOp.sid \notin qrTimeouts

-----------------------------------------------------------------------------
(* Claims on the inbound-message pipeline *)

(* C9: history trimming. The history handed to the completion call is empty  *)
(* or has a user-role first entry, whatever window of rows was fetched.      *)
C9_HistoryStartsWithUser ==
    lastOp.op = "chat" =>
        (lastOp.history = <<>> \/ lastOp.history[1].role = "user")

(* C10: filtering. Every customer row or message row written, every         *)
(* completion call and every reply sent is for a message that is not from a  *)
(* group, not from a broadcast or status channel, not sent by the account    *)
(* itself and has a text body.                                               *)
C10_MustDiscard(msg) ==
    \/ msg.from.server \in {"g.us", "broadcast"}
    \/ msg.remote.server \in {"g.us", "broadcast"}
    \/ msg.fromMe
    \/ ~msg.hasMessage
    \/ msg.text = ""

C10_FilteredLeavesNoTrace ==
    (\/ lastOp.op = "chat"
     \/ lastOp.op = "message" /\ lastOp.result \in {"customer", "saved", "sent", "replied"})
    => ~C10_MustDiscard(lastOp.msg)

(* C11: no eligible agent. While the session is unpinned and the tenant has  *)
(* no active agent, the handler of an inbound text message inserts exactly   *)
(* one row, the user row of the message, and ends at the agent lookup: no    *)
(* step of it reaches the history query, the completion call or the reply,   *)
(* and no assistant row is inserted.                                         *)
C11_NoEligibleAgent ==
    /\ agent = {}
    /\ \A k \in 1..Len(socks) : socks[k].linkedAgentId = "null"
    /\ \A c \in 1..Len(clis) : clis[c].linkedAgentId = "null"

C11_NoAgentNoReply ==
    [][C11_NoEligibleAgent /\ lastOp'.op \in {"message", "chat"} =>
         /\ lastOp'.op # "chat"
         /\ lastOp'.result \notin {"agent", "newest", "sending", "sent", "replied",
                                   "noResponse"}
         /\ IF lastOp'.result = "saved"
            THEN message' = Append(message, Row(lastOp'.msg.from.user, "user",
                                                lastOp'.msg.text))
            ELSE message' = message
         /\ lastOp'.result = "noAgent" =>
               /\ Len(tasks') = Len(tasks) - 1
               /\ \E i \in 1..Len(tasks) : tasks[i].pc = "agent" /\ tasks' = SeqRemove(tasks, i)
               /\ \E j \in (stored + 1)..Len(message) :
                     message[j] = Row(lastOp'.msg.from.user, "user", lastOp'.msg.text)]_vars

C11_Witness ==
    /\ lastOp.op = "message" /\ lastOp.result = "noAgent" /\ lastOp.msg.text = "oi"
    /\ C11_NoEligibleAgent
    /\ tasks = <<>>
    /\ Len(message) = stored + 1
    /\ message[Len(message)] = Row(Person.user, "user", "oi")

-----------------------------------------------------------------------------
(* Claims on the tool calls *)

(* C12: conflicting createAppointment. When the transaction of a             *)
(* createAppointment tool call throws Conflict, no appointment row is added, *)
(* handleToolCall returns (the error does not leave it) and the tool result  *)
(* handed back to the completion is the slot-unavailable text, not the       *)
(* generic technical-problem text.                                           *)
C12_ConflictIsReported ==
    [][(/\ lastOp'.op = "tool" /\ lastOp'.name = "createAppointment"
        /\ lastOp'.error.code = "CONFLICT")
       => /\ appointment' = appointment
          /\ lastOp'.toolResult.status = "error"
          /\ lastOp'.toolResult.message
                = "Esse horário já está ocupado. Por favor, escolha outro."
          /\ lastOp'.toolResult.message # "Ocorreu um problema técnico."]_vars


-----------------------------------------------------------------------------
(* Claims on process start *)

C15_GetStatusIsPure ==
    [][lastOp'.op = "status" =>
         /\ IF lastOp'.sid \in DOMAIN sessions
            THEN lastOp'.result = sessions[lastOp'.sid]
            ELSE /\ lastOp'.result.status = "DISCONNECTED"
                 /\ lastOp'.result.qrCode = "null"
                 /\ lastOp'.result.phoneNumber = "null"
         /\ UNCHANGED <<sessions, sockets, socks, clients, clis, qrTimeouts, tasks>>]_vars

C15_Witness ==
    /\ lastOp.op = "status" /\ lastOp.sid = "s2"
    /\ "s2" \notin DOMAIN sessions /\ "s1" \in DOMAIN sessions
    /\ lastOp.result.status = "DISCONNECTED"
    /\ whatsAppSession["s2"] = "CONNECTED"


(* C13: sendTextMessage returns false, and throws nothing, whenever the      *)
(* tenant has no row with persisted status CONNECTED or the row found has no *)
(* registered handle; it returns true only for a text that was handed to    *)
(* the handle of a CONNECTED row of that tenant.                            *)
C13_SendTextIsTotal ==
    [][lastOp'.op = "sendText" /\ lastOp'.result # "pending" =>
         LET handles == IF manager = "baileys" THEN DOMAIN sockets ELSE DOMAIN clients
             rows == {sid \in DOMAIN whatsAppSession :
                        TenantOf(sid) = lastOp'.tenantId
                        /\ whatsAppSession[sid] = "CONNECTED"}
             atLookup == \E i \in 1..Len(tasks) :
                            /\ tasks[i].type = "send" /\ tasks[i].pc = "lookup"
                            /\ tasks[i].tenantId = lastOp'.tenantId
                            /\ \/ tasks' = SeqRemove(tasks, i)
                               \/ lastOp'.result = "handed"
             afterSend == \E i \in 1..Len(tasks) :
                             /\ tasks[i].type = "send" /\ tasks[i].pc = "send"
                             /\ tasks[i].sessionId = lastOp'.sid
                             /\ tasks' = SeqRemove(tasks, i) IN
         /\ lastOp'.result = "handed" =>
               atLookup /\ lastOp'.sid \in rows /\ lastOp'.sid \in handles
         /\ lastOp'.result = "true" => afterSend
         /\ (atLookup /\ ~afterSend /\ (rows = {} \/ lastOp'.sid \notin handles)) =>
               lastOp'.result = "false"]_vars

C13_Witness ==
    /\ lastOp.op = "sendText" /\ lastOp.result = "false" /\ lastOp.tenantId = "t1"
    /\ lastOp.sid = "s2" /\ whatsAppSession["s2"] = "CONNECTED"
    /\ IF manager = "baileys" THEN "s2" \notin DOMAIN sockets /\ "s1" \in DOMAIN sockets
       ELSE "s2" \notin DOMAIN clients /\ "s1" \in DOMAIN clients


-----------------------------------------------------------------------------
(* Claims on the registry *)

(* C14: after startClient on a session without handle the registry entry is *)
(* {STARTING, qrCode null, phoneNumber null}; after the qr handler has the  *)
(* image it is {QRCODE, a non-empty image, phoneNumber null}; after the     *)
(* ready handler it is {CONNECTED, qrCode null, the number the client       *)
(* reports}. In every state an entry has an image only with status QRCODE   *)
(* and a phone number only with status CONNECTED.                           *)
C14_StatusSnapshot ==
    /\ \A sid \in DOMAIN sessions :
          /\ sessions[sid].qrCode # "null" => sessions[sid].status = "QRCODE"
          /\ sessions[sid].phoneNumber # "null" => sessions[sid].status = "CONNECTED"
    /\ lastOp.op = "start" /\ lastOp.result = "suspended" =>
          /\ sessions[lastOp.sid].status = "STARTING"
          /\ sessions[lastOp.sid].qrCode = "null"
          /\ sessions[lastOp.sid].phoneNumber = "null"
    /\ lastOp.op = "qr" /\ lastOp.result = "shown" =>
          /\ sessions[lastOp.sid].status = "QRCODE"
          /\ sessions[lastOp.sid].qrCode \notin {"null", ""}
          /\ sessions[lastOp.sid].phoneNumber = "null"
    /\ lastOp.op = "ready" /\ lastOp.result = "connected" =>
          /\ sessions[lastOp.sid].status = "CONNECTED"
          /\ sessions[lastOp.sid].qrCode = "null"
          /\ sessions[lastOp.sid].phoneNumber \in Users

C14_Witness ==
    /\ lastOp.op = "ready" /\ lastOp.result = "connected"
    /\ sessions[lastOp.sid].phoneNumber = "5511999990000"
    /\ \E i \in 1..Len(tasks) : tasks[i].type = "W_qr"


-----------------------------------------------------------------------------
(* Claims on the reply *)

C16_AtStage(pc) == {i \in 1..Len(tasks) : tasks[i].type \in {"B_msg", "W_msg"} /\ tasks[i].pc = pc}

C16_ModelRows(rows) == {j \in 1..Len(rows) : rows[j].role = "model"}

(* What holds of every step whatever the completion returned: the reply is  *)
(* sent to the sender of the message, its row is inserted only once the     *)
(* send has resolved, and it is the only place a model row comes from.      *)
C16_SentBeforePersisted ==
    /\ lastOp'.op = "message" /\ lastOp'.result = "sending" =>
          /\ lastOp'.to = lastOp'.msg.from
          /\ message' = message
    /\ (\E i \in 1..Len(tasks') :
           /\ tasks'[i].type \in {"B_msg", "W_msg"} /\ tasks'[i].pc = "reply"
           /\ Cardinality({j \in 1..Len(tasks') : tasks'[j] = tasks'[i]})
                > Cardinality({j \in 1..Len(tasks) : tasks[j] = tasks'[i]})) =>
          /\ lastOp'.op = "message" /\ lastOp'.result = "sent"
          /\ message' = message
    /\ C16_ModelRows(message') # C16_ModelRows(message) =>
          /\ lastOp'.op = "message" /\ lastOp'.result = "replied"
          /\ \E i \in C16_AtStage("reply") :
                /\ tasks' = SeqRemove(tasks, i)
                /\ message' = Append(message, Row(lastOp'.msg.from.user, "model",
                                                  tasks[i].response))

(* C16 as stated: a completion that returns non-null text has it sent to    *)
(* the sender and then persisted as one model row; one that returns null    *)
(* sends nothing and writes no model row; no model row without a sent reply. *)
C16_Original ==
    [][/\ C16_SentBeforePersisted
       /\ lastOp'.op = "message" /\ lastOp'.result = "noResponse" =>
             lastOp'.response = "null" /\ message' = message
       /\ lastOp'.op = "message" /\ lastOp'.result = "sending" =>
             lastOp'.response # "null"]_vars

(* C16: a completion that returns non-empty text has it sent to the sender  *)
(* and, once sent, persisted as one model row; one that returns null or the *)
(* empty string sends nothing and writes no model row; no model row is      *)
(* written for a reply that was not sent.                                   *)
C16_ReplyRelay ==
    [][/\ C16_SentBeforePersisted
       /\ lastOp'.op = "message" /\ lastOp'.result = "noResponse" =>
             /\ lastOp'.response \in {"null", ""}
             /\ message' = message
             /\ \E i \in C16_AtStage("chat") : tasks' = SeqRemove(tasks, i)
       /\ lastOp'.op = "message" /\ lastOp'.result = "sending" =>
             lastOp'.response \notin {"null", ""}]_vars

C16_Witness ==
    /\ lastOp.op = "message" /\ lastOp.result = "replied"
    /\ Len(message) > stored
    /\ message[Len(message)] = Row(Person.user, "model", "Ola!")
    /\ \E j \in (stored + 1)..(Len(message) - 1) :
          message[j] = Row(Person.user, "user", lastOp.msg.text)


(* C17: a failure of any step of the processing of one inbound message is   *)
(* caught by the handler, which then sends a generic apology to the sender  *)
(* of the message: the step that fails leaves that send pending.            *)
C17_FailureSendsApology ==
    [][lastOp'.op = "message" /\ lastOp'.result = "failed" =>
         \E j \in 1..Len(tasks') :
            /\ tasks'[j].type \in {"B_msg", "W_msg"}
            /\ tasks'[j].pc = "apology"
            /\ tasks'[j].msg = lastOp'.msg]_vars


C18_Handlers(q, msg, pc) ==
    Cardinality({j \in 1..Len(q) : q[j].type = "B_msg" /\ q[j].msg = msg /\ q[j].pc = pc})

(* C18: per-message isolation. A messages.upsert batch starts one handler   *)
(* for each of its messages that passes the filters, and a step of one      *)
(* handler that fails ends that handler alone: the handlers of the sibling  *)
(* messages stay pending with their progress, and no row is touched.        *)
C18_FailureIsIsolated ==
    [][/\ lastOp'.op = "upsert" =>
             \A k \in 1..Len(socks), ev \in B_UpsertEvents :
                B_onMessagesUpsert(k, ev.messages, ev.type) =>
                   \A n \in 1..Len(ev.messages) :
                      LET msg == ev.messages[n]
                          same == {m \in 1..Len(ev.messages) : ev.messages[m] = msg} IN
                      C18_Handlers(tasks', msg, "customer") =
                         C18_Handlers(tasks, msg, "customer")
                         + (IF ev.type = "notify" /\ B_Passes(msg)
                            THEN Cardinality(same) ELSE 0)
       /\ lastOp'.op = "message" /\ lastOp'.result = "failed" =>
             /\ \E i \in 1..Len(tasks) :
                   /\ tasks[i].type = "B_msg" /\ tasks[i].msg = lastOp'.msg
                   /\ tasks' = SeqRemove(tasks, i)
             /\ message' = message
             /\ customer' = customer]_vars

C18_Witness ==
    /\ lastOp.op = "message" /\ lastOp.result = "failed"
    /\ Len(message) = stored
    /\ \E i \in 1..Len(tasks) :
          tasks[i].type = "B_msg" /\ tasks[i].pc = "customer" /\ tasks[i].msg = lastOp.msg


-----------------------------------------------------------------------------
(* Claims on the credential store *)

(* The last operation of a batch on a key, 0 when the batch has none. *)
C19_Last(ops, keyId) ==
    LET on == {n \in 1..Len(ops) : ops[n].keyId = keyId}
    IN IF on = {} THEN 0 ELSE CHOOSE n \in on : \A m \in on : m <= n

(* Every upsert and delete of the batch is in the store. *)
C19_AllApplied(ops, before, after) ==
    \A keyId \in {"1", "2"} :
       LET n == C19_Last(ops, keyId) IN
       IF n = 0
       THEN /\ keyId \in DOMAIN after <=> keyId \in DOMAIN before
            /\ keyId \in DOMAIN after => after[keyId] = before[keyId]
       ELSE IF ops[n].kind = "deleteMany" THEN keyId \notin DOMAIN after
       ELSE keyId \in DOMAIN after /\ after[keyId].value = ops[n].value

(* C19: when set returns, either every upsert and delete of its batch is   *)
(* in the store or the store is as the transaction found it; a delete of a *)
(* key that has no row is no error and does not keep the rest of the batch *)
(* from being applied.                                                      *)
C19_SetIsAtomic ==
    lastOp.op = "set" /\ lastOp.result = "returned" =>
       /\ \/ C19_AllApplied(lastOp.ops, lastOp.before, authKey)
          \/ authKey = lastOp.before
       /\ lastOp.error # "P2025"
       /\ lastOp.error = "none" => C19_AllApplied(lastOp.ops, lastOp.before, authKey)

C19_Witness ==
    /\ lastOp.op = "set" /\ lastOp.result = "returned" /\ lastOp.error = "none"
    /\ Len(lastOp.ops) = 2
    /\ lastOp.ops[1].kind = "deleteMany" /\ lastOp.ops[1].keyId \notin DOMAIN lastOp.before
    /\ lastOp.ops[2].kind = "upsert" /\ lastOp.ops[2].keyId \in DOMAIN authKey
    /\ authKey # lastOp.before


-----------------------------------------------------------------------------
(* Claims on deletion and on closes *)

(* C21: the DELETE route awaits stopClient before it deletes the row, and   *)
(* when the row has been deleted the session has no registered or live      *)
(* client and no armed QR timer.                                            *)
C21_DeleteLeavesNothing ==
    lastOp.op = "deleteRow" =>
       /\ lastOp.sid \notin DOMAIN clients
       /\ W_LiveClients(lastOp.sid) = {}
       /\ lastOp.sid \notin qrTimeouts


(* The session of the last step has just ended for good: a Baileys close    *)
(* handled as terminal, or the stopClient the QR timer or the auth_failure  *)
(* handler called has destroyed the client.                                 *)
C22_JustTerminated ==
    \/ lastOp.op = "close" /\ lastOp.result = "terminal"
    \/ /\ lastOp.op = "stop" /\ lastOp.result = "destroyed"
       /\ lastOp.caller \in {"timer", "auth_failure"}

(* The step is a start the supervisor makes on its own: the retry timer. *)
C22_OwnStart ==
    /\ lastOp'.op = "start"
    /\ Cardinality({i \in 1..Len(tasks') : tasks'[i].type = "retry"})
         < Cardinality({i \in 1..Len(tasks) : tasks[i].type = "retry"})

(* C22: terminal closes stay terminal. Once a session is DISCONNECTED by a  *)
(* logout, an auth failure or a QR timeout, it has no live handle, and the  *)
(* step that follows, unless it is a start called through the API, is no    *)
(* start made by the supervisor and leaves the status DISCONNECTED and the  *)
(* session without live handle.                                             *)
C22_TerminalStaysTerminal ==
    [][C22_JustTerminated =>
         LET sid == lastOp.sid IN
         /\ B_LiveSockets(sid) = {} /\ W_LiveClients(sid) = {}
         /\ sessions[sid].status = "DISCONNECTED"
         /\ ~C22_OwnStart
         /\ (lastOp'.op = "start" /\ lastOp'.sid = sid)
            \/ /\ sessions'[sid].status = "DISCONNECTED"
               /\ \A k \in 1..Len(socks') :
                     socks'[k].sessionId = sid => socks'[k].state \notin {"connecting", "open"}
               /\ \A c \in 1..Len(clis') :
                     clis'[c].sessionId = sid => clis'[c].state \notin {"new", "ready"}]_vars


-----------------------------------------------------------------------------
(* Claims on the pipeline of one message *)

(* C23: agent resolution. The agent passed to aiService.chat is the agent   *)
(* linked to the session when there is one, whichever agents are active;    *)
(* for a session without linked agent it is the first active agent of the   *)
(* tenant.                                                                   *)
C23_AgentResolution ==
    [][lastOp'.op = "chat" =>
         LET linked == IF manager = "baileys" THEN socks[1].linkedAgentId
                       ELSE clis[1].linkedAgentId IN
         IF linked # "null" THEN lastOp'.agentId = linked
         ELSE /\ lastOp'.agentId \in agent
              /\ \E n \in 1..Len(AgentRows) :
                    /\ AgentRows[n] = lastOp'.agentId
                    /\ \A m \in 1..(n - 1) : AgentRows[m] \notin agent]_vars

C23_Witness ==
    /\ lastOp.op = "chat" /\ lastOp.agentId = "agent2"
    /\ agent = {"agent2", "agent3"}
    /\ IF manager = "baileys" THEN socks[1].linkedAgentId = "null"
       ELSE clis[1].linkedAgentId = "null"


(* C24: customer resolution is race-free. However the handlers of messages  *)
(* of one phone number interleave, none of them is ended by the customer    *)
(* another one has created meanwhile: no handler fails on the unique pair   *)
(* (tenant, phone), so that every message goes on to its user row.          *)
C24_CustomerRaceFree ==
    ~(/\ lastOp.op = "message" /\ lastOp.result = "failed"
      /\ "code" \in DOMAIN lastOp
      /\ lastOp.code = "P2002")


-----------------------------------------------------------------------------
(* Claims on the appointment tools of a conversation                         *)

(* The conversation of the runs is the one of Person in tenant t1. *)
C25_Foreign(row) == row.tenantId # "t1" \/ row.customerId # Person.user

(* cancelAppointment or rescheduleAppointment has just returned for the id of *)
(* an appointment of another customer or tenant.                              *)
C25_ReturnsForForeign ==
    /\ lastOp'.op = "tool"
    /\ lastOp'.name \in {"cancelAppointment", "rescheduleAppointment"}
    /\ "args" \in DOMAIN lastOp'
    /\ lastOp'.args.appointmentId <= Len(appointment)
    /\ C25_Foreign(appointment[lastOp'.args.appointmentId])

(* C25, as stated: a cancel or reschedule tool call of the conversation that  *)
(* names an appointment of another customer or tenant fails with NotFound and *)
(* leaves every appointment unchanged.                                        *)
C25_Original ==
    [][C25_ReturnsForForeign =>
         /\ lastOp'.error.code = "RESOURCE_NOT_FOUND"
         /\ UNCHANGED appointment]_vars

(* C25, amended: no step of a tool call of the conversation changes an        *)
(* appointment of another customer or tenant; a cancel or reschedule call     *)
(* that names one ends in an error and leaves every appointment unchanged;    *)
(* the error is NotFound, except BadRequest for a reschedule into the past    *)
(* (thrown before the lookup) and the rejection of the database client.       *)
C25_ScopedToCaller ==
    [][/\ \A j \in 1..Len(appointment) :
            C25_Foreign(appointment[j]) =>
               j <= Len(appointment') /\ appointment'[j] = appointment[j]
       /\ C25_ReturnsForForeign =>
            LET past == /\ lastOp'.name = "rescheduleAppointment"
                        /\ startOfMinute(lastOp'.args.newDateTime) < Now
            IN /\ UNCHANGED appointment
               /\ lastOp'.toolResult.status = "error"
               /\ IF past THEN lastOp'.error.code = "BAD_REQUEST"
                  ELSE lastOp'.error.code \in {"RESOURCE_NOT_FOUND", PrismaError.code}]_vars

(* A cancel of the appointment of another customer of the tenant was refused  *)
(* with NotFound, the caller having an appointment of their own.              *)
C25_Witness ==
    /\ lastOp.op = "tool" /\ lastOp.name = "cancelAppointment"
    /\ "args" \in DOMAIN lastOp
    /\ lastOp.args.appointmentId = 1
    /\ lastOp.error.code = "RESOURCE_NOT_FOUND"
    /\ Len(appointment) = 2
    /\ appointment[1].tenantId = "t1" /\ appointment[1].customerId # Person.user
    /\ appointment[1].status = "SCHEDULED"
    /\ appointment[2].customerId = Person.user


(* C26: a close or disconnected event that the manager's own stop did not     *)
(* cause leaves the registry status of the session DISCONNECTED, whether the  *)
(* handler scheduled a reconnect or not: the closed session is not reported   *)
(* as STARTING, QRCODE or CONNECTED.                                          *)
C26_CloseSetsDisconnected ==
    (\/ lastOp.op = "close" /\ lastOp.result \in {"reconnect", "terminal"}
     \/ lastOp.op = "disconnected" /\ lastOp.result = "handled")
    => /\ lastOp.sid \in DOMAIN sessions
       /\ sessions[lastOp.sid].status = "DISCONNECTED"


(* Nothing is pending and no transport of the session can emit an event. *)
C27_AtRest(sid) ==
    /\ tasks = <<>>
    /\ B_LiveSockets(sid) = {}
    /\ W_LiveClients(sid) = {}

(* C27: for a session whose row exists, once no handler is in flight and no   *)
(* further event can arrive, the registry status and the persisted status are *)
(* equal.                                                                     *)
C27_RegistryMatchesRow ==
    \A sid \in SessionIds :
       (RowExists(sid) /\ C27_AtRest(sid)) =>
          (IF manager = "baileys" THEN B_getSessionStatus(sid) ELSE W_getSessionStatus(sid)).status
             = whatsAppSession[sid]


(* The handles ever created for a session, of either implementation. *)
C28_Handles(sid) ==
    {<<"B", k>> : k \in {k \in 1..Len(socks) : socks[k].sessionId = sid}}
       \cup {<<"W", c>> : c \in {c \in 1..Len(clis) : clis[c].sessionId = sid}}

(* The only handle of the session has emitted its connected event. *)
C28_ConnectedLast(sid) ==
    /\ Cardinality(C28_Handles(sid)) = 1
    /\ \A h \in C28_Handles(sid) :
          IF h[1] = "B" THEN socks[h[2]].state = "open" ELSE clis[h[2]].state = "ready"

(* C28: connection-state events take effect in emission order. A handle emits *)
(* its QR codes before its connected event, so the handler of a QR code never *)
(* writes its status once the connected event of the handle has been handled: *)
(* the registry keeps CONNECTED.                                              *)
C28_EmissionOrder ==
    (lastOp.op = "qr" /\ lastOp.result = "shown" /\ C28_ConnectedLast(lastOp.sid))
    => sessions[lastOp.sid].status = "CONNECTED"


(* The update of a QRCODE or CONNECTED status, issued by the Baileys handler  *)
(* of a QR code or of the connected event, resolves for a deleted row.        *)
C29_EventOnDeletedRow(i) ==
    /\ tasks[i].type = "persist"
    /\ tasks[i].status \in {"QRCODE", "CONNECTED"}
    /\ ~RowExists(tasks[i].sessionId)
    /\ tasks' = SeqRemove(tasks, i)

(* C29: when the row of a session was deleted while its start was in progress *)
(* or its connection alive, the next QR code or connected event tears the     *)
(* connection down: once its handler has found the row missing and finished,  *)
(* the session has no live handle and no armed QR timer and its registry      *)
(* status is DISCONNECTED.                                                    *)
C29_DeletedRowTearsDown ==
    [][/\ \A i \in 1..Len(tasks) :
            C29_EventOnDeletedRow(i) =>
               /\ \A k \in 1..Len(socks') :
                     socks'[k].sessionId = tasks[i].sessionId
                        => socks'[k].state \notin {"connecting", "open"}
               /\ tasks[i].sessionId \in DOMAIN sessions'
                     => sessions'[tasks[i].sessionId].status = "DISCONNECTED"
       /\ (/\ lastOp'.op = "stop" /\ lastOp'.result = "destroyed"
           /\ lastOp'.caller \in {"qr", "ready"})
          => /\ \A c \in 1..Len(clis') :
                   clis'[c].sessionId = lastOp'.sid => clis'[c].state \notin {"new", "ready"}
             /\ lastOp'.sid \notin DOMAIN clients'
             /\ lastOp'.sid \notin qrTimeouts'
             /\ lastOp'.sid \in DOMAIN sessions'
             /\ sessions'[lastOp'.sid].status = "DISCONNECTED"]_vars


(* The customer a handler works for: remoteJid (Baileys), msg.from (wwebjs). *)
C30_Sender(t) == IF t.type = "B_msg" THEN t.msg.remote.user ELSE t.msg.from.user

(* The handlers that are past the insert of their user row, for one customer *)
(* and one text.                                                             *)
C30_PastInsert(customerId, text) ==
    {i \in 1..Len(tasks) :
        /\ tasks[i].type \in {"B_msg", "W_msg"}
        /\ tasks[i].pc \in {"agent", "findFirst", "findMany", "chat", "send", "reply"}
        /\ C30_Sender(tasks[i]) = customerId
        /\ tasks[i].msg.text = text}

(* The user rows of the run, for one customer and one text. *)
C30_UserRows(customerId, text) ==
    {j \in (stored + 1)..Len(message) : message[j] = Row(customerId, "user", text)}

(* Every handler that is at or past the agent lookup has its customer and a  *)
(* user row of its own.                                                      *)
C30_UserRowFirst ==
    \A i \in 1..Len(tasks) :
       (tasks[i].type \in {"B_msg", "W_msg"} /\ tasks[i].pc \notin {"customer", "customerCreate", "create"})
       => /\ C30_Sender(tasks[i]) \in customer
          /\ Cardinality(C30_UserRows(C30_Sender(tasks[i]), tasks[i].msg.text))
                >= Cardinality(C30_PastInsert(C30_Sender(tasks[i]), tasks[i].msg.text))

(* C30: in the processing of one message the customer is resolved, then the  *)
(* user row is inserted, and only then is the completion invoked; a reply    *)
(* row is inserted only by a handler whose completion has returned; a failed *)
(* completion call leaves the rows, the user row of its message among them.  *)
C30_PersistenceOrder ==
    [][/\ C30_UserRowFirst'
       /\ lastOp'.op = "chat" =>
             /\ C30_UserRows(IF manager = "baileys" THEN lastOp'.msg.remote.user
                              ELSE lastOp'.msg.from.user, lastOp'.msg.text) # {}
             /\ message' = message
       /\ Cardinality(C16_ModelRows(message')) > Cardinality(C16_ModelRows(message))
             => \E i \in C16_AtStage("reply") : tasks' = SeqRemove(tasks, i)
       /\ (lastOp'.op = "message" /\ lastOp'.result = "failed" /\ "at" \in DOMAIN lastOp'
             /\ lastOp'.at = "chat")
             => /\ message' = message
                /\ \E j \in (stored + 1)..Len(message') :
                      /\ message'[j].role = "user"
                      /\ message'[j].content = lastOp'.msg.text]_vars

(* A completion call has failed after the user row of its message was saved. *)
C30_Witness ==
    /\ lastOp.op = "message" /\ lastOp.result = "failed"
    /\ "at" \in DOMAIN lastOp /\ lastOp.at = "chat"
    /\ Len(message) = stored + 1
    /\ message[Len(message)].role = "user"
    /\ message[Len(message)].content = lastOp.msg.text


-----------------------------------------------------------------------------
(* Claims on the history, the tool round trip and the agents                 *)

(* The rows earlier runs left, as the completion is to receive them. *)
C31_StoredHistory ==
    [j \in 1..stored |->
        [role |-> IF message[j].role = "user" THEN "user" ELSE "model",
         text |-> message[j].content]]

(* C31: history assembly. The history handed to the completion call is the   *)
(* window of the customer's newest rows in chronological order without the   *)
(* row just inserted, older rows of equal content included. For the first    *)
(* message of a run, with a stored conversation that fits the window, that   *)
(* is the stored conversation of the customer.                               *)
C31_HistoryKeepsOlderRows ==
    (/\ lastOp.op = "chat"
     /\ lastOp.msg.from.user = Person.user /\ lastOp.msg.remote.user = Person.user
     /\ Len(message) = stored + 1
     /\ stored < B_HistoryTake /\ stored < W_HistoryTake)
    => lastOp.history = C31_StoredHistory


(* C32: tool round-trip bound. For one message chat calls the model at most  *)
(* twice and handleToolCall at most once, so that at most one call of the    *)
(* appointment service is pending, however many calls the first response     *)
(* requests.                                                                 *)
C32_RoundTripBound ==
    /\ \A i \in TasksOf("AI_chat") : tasks[i].sends <= 2 /\ tasks[i].tools <= 1
    /\ Cardinality(AI_ToolTasks) <= Cardinality(TasksOf("AI_chat"))
    /\ lastOp.op = "chatReturn" =>
          /\ lastOp.sends <= 2 /\ lastOp.tools <= 1
          /\ lastOp.sends = 2 => lastOp.tools = 1

(* A chat whose first response requested two calls has returned after one    *)
(* tool action and the follow-up.                                            *)
C32_Witness ==
    /\ lastOp.op = "chatReturn" /\ lastOp.requested = 2
    /\ lastOp.sends = 2 /\ lastOp.tools = 1
    /\ lastOp.action = "createAppointment"
    /\ Len(appointment) = 2


-----------------------------------------------------------------------------
(* Claims on the QR timer, on stop and on the registry                       *)

(* C33: QR timer invariant. A QR timer is armed for a session only while the *)
(* session has a live registered client and the registry status QRCODE: the  *)
(* connected event, stop, an auth failure and a close leave none armed.      *)
C33_QrTimerOnlyWithQr ==
    \A sid \in qrTimeouts :
       /\ sid \in DOMAIN clients
       /\ W_LiveClients(sid) # {}
       /\ sid \in DOMAIN sessions
       /\ sessions[sid].status = "QRCODE"



(* The reconnect timer of a session fires and runs startClient. *)
C34_RetryFires(sid) ==
    /\ \E i \in TasksOf("retry") : tasks[i].sessionId = sid
    /\ lastOp'.op = "start" /\ lastOp'.sid = sid
    /\ Cardinality(TasksOf("retry"))' < Cardinality(TasksOf("retry"))

(* C34: stop cancels a pending reconnect. Once stopClient has returned for a *)
(* session, the manager does not start it again by itself: no reconnect      *)
(* timer of the session fires after the stop.                                *)
C34_StopCancelsReconnect ==
    [][lastOp.op = "stop" => ~C34_RetryFires(lastOp.sid)]_vars


(* The session has a registered client that can still emit events. *)
C35_LiveHandle(sid) ==
    sid \in DOMAIN clients /\ clients[sid] \in W_LiveClients(sid)

(* C35: handle/status agreement. Whenever nothing is in flight, a session    *)
(* has a live handle exactly when its registry status is STARTING, QRCODE or *)
(* CONNECTED.                                                                *)
C35_HandleMatchesStatus ==
    tasks = <<>> =>
       \A sid \in SessionIds :
          C35_LiveHandle(sid)
             <=> W_getSessionStatus(sid).status \in {"STARTING", "QRCODE", "CONNECTED"}


-----------------------------------------------------------------------------
(* Two sessions of one tenant on the whatsapp-web.js manager: the maps of   *)
(* the manager are keyed by session id, and both ids belong to tenant t1.   *)

InitTwo ==
    /\ manager = "wwebjs"
    /\ sessions = EmptyMap
    /\ whatsAppSession = [sid \in BootIds |-> "DISCONNECTED"]
    /\ tasks = <<>>
    /\ deleting = {}
    /\ lastOp = [op |-> "init"]
    /\ sockets = EmptyMap /\ socks = <<>> /\ clients = EmptyMap /\ clis = <<>>
    /\ qrTimeouts = {}
    /\ customer = {} /\ message = <<>> /\ agent = {"agent2"} /\ stored = 0
    /\ appointment = <<>> /\ authKey = EmptyMap
    /\ restore = [pc |-> "idle"]

NextTwo ==
    \/ \E sid \in BootIds : W_RouteStart(sid)
    \/ \E i \in 1..Len(tasks) : W_startAfterInitialize(i)
    \/ \E sid \in BootIds : W_RouteStop(sid)
    \/ \E i \in 1..Len(tasks) : W_stopAfterDestroy(i)
    \/ \E i \in 1..Len(tasks) : W_stopAfterUpdate(i)
    \/ \E c \in 1..Len(clis) : W_onQr(c)
    \/ \E i \in 1..Len(tasks) : W_qrAfterToDataURL(i)
    \/ \E i \in 1..Len(tasks) : W_qrAfterUpdate(i)
    \/ \E sid \in BootIds : W_qrTimeoutFires(sid)
    \/ \E c \in 1..Len(clis), user \in Users : W_onReady(c, user)
    \/ \E i \in 1..Len(tasks) : W_readyAfterUpdate(i)
    \/ \E c \in 1..Len(clis) : W_onAuthFailure(c)
    \/ \E c \in 1..Len(clis) : W_onDisconnected(c)
    \/ \E i \in 1..Len(tasks) : W_disconnectedAfterUpdate(i)

SpecTwo == InitTwo /\ [][NextTwo]_vars

(* What the manager and the store hold for one session id. *)
C36_View(sid) ==
    [client  |-> IF sid \in DOMAIN clients THEN clients[sid] ELSE 0,
     handles |-> {<<c, clis[c]>> : c \in {d \in 1..Len(clis) : clis[d].sessionId = sid}},
     entry   |-> IF sid \in DOMAIN sessions THEN <<sessions[sid]>> ELSE <<>>,
     timer   |-> sid \in qrTimeouts,
     row     |-> whatsAppSession[sid]]

(* C36: a step of one session (a start, a stop, the expiry of its QR timer, *)
(* any event of its client, any continuation of those) leaves the live      *)
(* handle, the registry entry, the QR timer and the persisted status of     *)
(* every other session unchanged, the other session being of the same       *)
(* tenant.                                                                  *)
C36_SessionsIndependent ==
    [][\A other \in BootIds :
          other # lastOp'.sid => C36_View(other)' = C36_View(other)]_vars

(* Session s1 is torn down by a stop while session s2 of the same tenant    *)
(* shows its QR code with the timer armed.                                  *)
C36_Witness ==
    /\ lastOp.op = "stop" /\ lastOp.sid = "s1"
    /\ "s1" \notin DOMAIN clients
    /\ "s2" \in DOMAIN clients /\ "s2" \in qrTimeouts
    /\ "s2" \in DOMAIN sessions /\ sessions["s2"].status = "QRCODE"
    /\ TenantOf("s1") = TenantOf("s2")


(* The agent pinned to the connected session, or "null". *)
C37_Linked ==
    IF manager = "baileys" THEN socks[1].linkedAgentId ELSE clis[1].linkedAgentId

C37_MsgTasks == TasksOf("B_msg") \cup TasksOf("W_msg")

C38_NoDoubleBooking ==
    \A a, b \in 1..Len(appointment) :
        (/\ a < b
         /\ appointment[a].tenantId = appointment[b].tenantId
         /\ appointment[a].status = "SCHEDULED" /\ appointment[b].status = "SCHEDULED")
        => \/ appointment[a].endTime <= appointment[b].startTime
           \/ appointment[b].endTime <= appointment[a].startTime


-----------------------------------------------------------------------------
(* Reminders: ReminderService.checkAndSendReminders, run by start() at once *)
(* and then by setInterval every 60 s, which does not wait for the tick it  *)
(* started before. Times are seconds.                                       *)

(* The rows of prisma.tenantSettings, in the order findMany returns them. *)
RS_TenantSettings ==
    <<[tenantId |-> "t1", reminderEnabled |-> TRUE,  reminderMinutes |-> 60],
      [tenantId |-> "t2", reminderEnabled |-> FALSE, reminderMinutes |-> 60],
      [tenantId |-> "t2", reminderEnabled |-> TRUE,  reminderMinutes |-> 150]>>

(* new Date() of a tick. *)
RS_Clock == {0, 300}

(* The ids of a set of rows in ascending order. *)
RECURSIVE RS_Ordered(_)
RS_Ordered(ids) ==
    IF ids = {} THEN <<>>
    ELSE LET least == CHOOSE j \in ids : \A m \in ids : j <= m
         IN <<least>> \o RS_Ordered(ids \ {least})

(* prisma.tenantSettings.findMany({ where: { reminderEnabled: true } }) *)
RS_settingsWithReminders ==
    RS_Ordered({n \in 1..Len(RS_TenantSettings) : RS_TenantSettings[n].reminderEnabled})

(* prisma.appointment.findMany of one setting: SCHEDULED rows of the tenant *)
(* not yet reminded whose startTime is within two minutes of now + minutes. *)
RS_appointments(setting, now) ==
    LET minutes == RS_TenantSettings[setting].reminderMinutes
        targetTimeStart == now + 60 * (minutes - 2)
        targetTimeEnd == now + 60 * (minutes + 2)
    IN RS_Ordered({j \in 1..Len(appointment) :
                      /\ appointment[j].tenantId = RS_TenantSettings[setting].tenantId
                      /\ appointment[j].status = "SCHEDULED"
                      /\ appointment[j].reminderSent = FALSE
                      /\ appointment[j].startTime >= targetTimeStart
                      /\ appointment[j].startTime <= targetTimeEnd})

(* The tick goes on: sendTextMessage is awaited for the next appointment of *)
(* the list, else findMany for the next setting, else the tick returns.     *)
(* returned and sent tell of the sendTextMessage that resolved in this      *)
(* step, marked of the row whose update resolved.                           *)
RS_goOn(i, apps, settings, returned, sent, marked) ==
    /\ tasks' = IF apps # <<>>
                THEN [tasks EXCEPT ![i].pc = "send", ![i].app = Head(apps),
                                   ![i].apps = Tail(apps), ![i].settings = settings]
                ELSE IF settings # <<>>
                THEN [tasks EXCEPT ![i].pc = "appointments", ![i].app = 0,
                                   ![i].apps = <<>>, ![i].setting = Head(settings),
                                   ![i].settings = Tail(settings)]
                ELSE SeqRemove(tasks, i)
    /\ lastOp' = [op |-> "reminder", returned |-> returned, sent |-> sent,
                  marked |-> marked, sending |-> IF apps # <<>> THEN Head(apps) ELSE 0]

(* The catch of checkAndSendReminders: the tick ends. *)
RS_crash(i) ==
    /\ tasks' = SeqRemove(tasks, i)
    /\ lastOp' = [op |-> "reminder", returned |-> 0, sent |-> FALSE, marked |-> 0,
                  sending |-> 0, crash |-> tasks[i].pc]

(* The call of start() or a firing of the interval: checkAndSendReminders up *)
(* to prisma.tenantSettings.findMany.                                        *)
RS_checkAndSendReminders ==
    /\ Room
    /\ \E now \in RS_Clock :
         tasks' = Append(tasks, [type |-> "RS_tick", pc |-> "settings", now |-> now,
                                 setting |-> 0, settings |-> <<>>, app |-> 0,
                                 apps |-> <<>>])
    /\ lastOp' = [op |-> "tick"]
    /\ UNCHANGED appointment
    /\ T_frame

(* tenantSettings.findMany resolves: no setting returns, else the            *)
(* appointments of the first setting are read.                               *)
RS_afterSettings(i) ==
    /\ tasks[i].type = "RS_tick" /\ tasks[i].pc = "settings"
    /\ \E ok \in BOOLEAN :
         IF ok THEN RS_goOn(i, <<>>, RS_settingsWithReminders, 0, FALSE, 0)
         ELSE RS_crash(i)
    /\ UNCHANGED appointment
    /\ T_frame

(* appointment.findMany resolves: the loop over its rows begins. *)
RS_afterAppointments(i) ==
    /\ tasks[i].type = "RS_tick" /\ tasks[i].pc = "appointments"
    /\ \E ok \in BOOLEAN :
         IF ok THEN RS_goOn(i, RS_appointments(tasks[i].setting, tasks[i].now),
                            tasks[i].settings, 0, FALSE, 0)
         ELSE RS_crash(i)
    /\ UNCHANGED appointment
    /\ T_frame

(* sendTextMessage resolves: true awaits the update of the row, false goes  *)
(* on with the next appointment.                                            *)
RS_afterSend(i) ==
    /\ tasks[i].type = "RS_tick" /\ tasks[i].pc = "send"
    /\ \E ok \in BOOLEAN, sent \in BOOLEAN :
         IF ~ok THEN RS_crash(i)
         ELSE IF sent
         THEN /\ tasks' = [tasks EXCEPT ![i].pc = "update"]
              /\ lastOp' = [op |-> "reminder", returned |-> tasks[i].app, sent |-> TRUE,
                            marked |-> 0, sending |-> 0]
         ELSE RS_goOn(i, tasks[i].apps, tasks[i].settings, tasks[i].app, FALSE, 0)
    /\ UNCHANGED appointment
    /\ T_frame

(* appointment.update({ data: { reminderSent: true } }) resolves. *)
RS_afterUpdate(i) ==
    /\ tasks[i].type = "RS_tick" /\ tasks[i].pc = "update"
    /\ \E ok \in BOOLEAN :
         IF ok
         THEN /\ appointment' = [appointment EXCEPT ![tasks[i].app].reminderSent = TRUE]
              /\ RS_goOn(i, tasks[i].apps, tasks[i].settings, 0, FALSE, tasks[i].app)
         ELSE /\ UNCHANGED appointment
              /\ RS_crash(i)
    /\ T_frame

(* The appointments of a tenant inside and outside the reminder window. *)
RS_Rows ==
    [tenantId : {"t1"}, customerId : {Person.user}, serviceId : {"null"},
     title : {"Corte"}, startTime : {3600, 9000}, endTime : {10800},
     status : {"SCHEDULED", "CANCELED"}, reminderSent : BOOLEAN]

InitReminder ==
    /\ manager = "wwebjs"
    /\ sessions = EmptyMap /\ whatsAppSession = [sid \in SessionIds |-> "CONNECTED"]
    /\ sockets = EmptyMap /\ socks = <<>> /\ clients = EmptyMap /\ clis = <<>>
    /\ qrTimeouts = {} /\ tasks = <<>> /\ deleting = {}
    /\ customer = {Person.user} /\ message = <<>> /\ stored = 0 /\ agent = {"agent2"}
    /\ authKey = EmptyMap
    /\ restore = [pc |-> "idle"]
    /\ \E n \in 1..MaxAppointments : appointment \in [1..n -> RS_Rows]
    /\ lastOp = [op |-> "init"]

NextReminder ==
    \/ RS_checkAndSendReminders
    \/ \E i \in 1..Len(tasks) : RS_afterSettings(i)
    \/ \E i \in 1..Len(tasks) : RS_afterAppointments(i)
    \/ \E i \in 1..Len(tasks) : RS_afterSend(i)
    \/ \E i \in 1..Len(tasks) : RS_afterUpdate(i)

SpecReminder == InitReminder /\ [][NextReminder]_vars

(* The flag of a row is set only by the update that follows a sendTextMessage *)
(* that returned true for the row.                                            *)
C39_SetOnlyAfterSent ==
    \A k \in 1..Len(appointment) :
        (appointment'[k].reminderSent /\ ~appointment[k].reminderSent)
        => /\ lastOp'.op = "reminder" /\ lastOp'.marked = k
           /\ \E i \in TasksOf("RS_tick") : tasks[i].pc = "update" /\ tasks[i].app = k

(* A sendTextMessage that returned false leaves the flag of its row as it is, *)
(* and awaits no update for it.                                               *)
C39_FalseLeavesFlag ==
    (lastOp'.op = "reminder" /\ lastOp'.returned # 0 /\ ~lastOp'.sent)
    => /\ appointment' = appointment
       /\ Cardinality(TasksOf("RS_tick"))' <= Cardinality(TasksOf("RS_tick"))

(* No sendTextMessage is called for a row whose flag is set. *)
C39_NoSendOnceSet ==
    (lastOp'.op = "reminder" /\ lastOp'.sending # 0)
    => ~appointment'[lastOp'.sending].reminderSent

(* C39: reminderSent of an appointment is set to true only after            *)
(* sendTextMessage returned true for it, it stays false whenever             *)
(* sendTextMessage returned false, and once it is true no further reminder   *)
(* is sent for the appointment.                                              *)
C39_ReminderBookkeeping ==
    [][C39_SetOnlyAfterSent /\ C39_FalseLeavesFlag /\ C39_NoSendOnceSet]_vars

=============================================================================
